---------------------------- MODULE Spec2Model ----------------------------
(***************************************************************************)
(* A model of the Lambda language implementation (bjn7/Lambda):            *)
(*   - src/src/ast.rs          the precedence-climbing parser              *)
(*   - src/src/interpreter.rs  the tree-walking evaluator                  *)
(*   - src/src/abstractions.rs the builtin capabilities                    *)
(*   - src/src/main.rs         the driver (parse, then evaluate)           *)
(* The parser and the evaluator are recursive functions in the source and  *)
(* are recursive operators here; the driver is the state machine.          *)
(***************************************************************************)
EXTENDS Integers, Sequences, FiniteSets, TLC

VARIABLES
    source,     \* the characters of the source file, when the run starts at the lexer
    tokens,     \* Vec<TokenKind> handed to Parser::parse_program
    kbd,        \* what the terminal and the clock will deliver to input/time
    pc,         \* position of main(): "lex", "parse", "eval", "done", "failed", "aborted";
                \* "blocked" (input waits forever), "cut" (the model stops)
    program,    \* Program.statements once parsed
    perr,       \* the parser's failure (Err or panic) when there is one
    idx,        \* number of statements evaluate_program has evaluated
    frames,     \* every Scope allocated so far; frames[1] is Interpreter.env
    results,    \* the results vector of evaluate_program
    out,        \* calls made to the builtin capabilities, in order
    log         \* history of the statement evaluated last (applications, lookups)

vars == <<source, tokens, kbd, pc, program, perr, idx, frames, results, out, log>>

-----------------------------------------------------------------------------
(* Tokens (lexer.rs TokenKind, Operator)                                    *)

\* A number (f64) is kept as an exact fraction num/den with den > 0; den = 0
\* stands for the IEEE specials: num = 1 is +inf, num = -1 is -inf, num = 0 NaN.
Num(n) == [num |-> n, den |-> 1]

Id(name) == [kind |-> "Identifier", name |-> name]
Lit(n) == [kind |-> "Literal", value |-> Num(n)]
Op(o) == [kind |-> "Operator", op |-> o]
Cmt(t) == [kind |-> "Comment", text |-> t]
LAMDA == [kind |-> "Lamda"]
REC == [kind |-> "Recursion"]
EOF == [kind |-> "Eof"]
None == [kind |-> "None"]

LP == Op("LeftParen")
RP == Op("RightParen")
DOT == Op("Dot")
EQ == Op("Equal")

BinaryOperators == {"Plus", "Minus", "Asterisk", "Slash", "BitAnd", "BitOr"}

-----------------------------------------------------------------------------
(* AST (ast.rs Statement, Expr, BinaryOp, Precedence)                       *)

Identifier(name) == [tag |-> "Identifier", name |-> name]
Literal(v) == [tag |-> "Literal", value |-> v]
Abstraction(param, body) == [tag |-> "Abstraction", param |-> param, body |-> body]
Recursion(inner) == [tag |-> "Recursion", inner |-> inner]
Application(func, arg) == [tag |-> "Application", func |-> func, arg |-> arg]
BinaryOperation(op, lhs, rhs) ==
    [tag |-> "BinaryOperation", op |-> op, lhs |-> lhs, rhs |-> rhs]

Binding(name, value) == [tag |-> "Binding", name |-> name, value |-> value]
ExpressionStmt(e) == [tag |-> "ExpressionStmt", expr |-> e]
EofStmt == [tag |-> "Eof"]
CommentStmt(t) == [tag |-> "Comment", text |-> t]

\* enum Precedence derives PartialOrd: the variants compare in declaration order
Lowest == 0
Sum == 1
Product == 2
Bitwise == 3
Call == 4

-----------------------------------------------------------------------------
(* Parser (ast.rs).  self.tokens is the reversed token vector: look_ahead   *)
(* reads its last element and consume pops it.  A parse function returns    *)
(*   Ok    : the value and the tokens left,                                 *)
(*   Err   : an anyhow error returned to the caller (bail!),                *)
(*   Panic : throw_syntax_error!, which is panic! (error.rs) and unwinds    *)
(*           through every caller to the end of the process.                *)

POk(v, toks) == [kind |-> "Ok", val |-> v, toks |-> toks]
PErr(msg, toks) == [kind |-> "Err", msg |-> msg, toks |-> toks]
Text(s) == [kind |-> "Text", text |-> s]
\* throw_syntax_error!(a, b) panics with "Unexpected token: a, expected: b"
throw_syntax_error(unexpected, expected) ==
    [kind |-> "Panic", unexpected |-> unexpected, expected |-> expected]

Reverse(s) == [i \in 1..Len(s) |-> s[Len(s) + 1 - i]]

look_ahead(toks) == IF Len(toks) = 0 THEN None ELSE toks[Len(toks)]

\* Vec::pop: the last element (None when empty) and the vector without it
consume(toks) ==
    [tok |-> look_ahead(toks),
     toks |-> IF Len(toks) = 0 THEN toks ELSE SubSeq(toks, 1, Len(toks) - 1)]

\* a variant that gives every binary operator the precedence Sum
get_precedence_flat(token) ==
    IF token.kind = "Operator" /\ token.op \in BinaryOperators THEN Sum ELSE Lowest

get_precedence(token) ==
    IF token.kind = "Operator" /\ token.op \in {"Plus", "Minus"} THEN Sum
    ELSE IF token.kind = "Operator" /\ token.op \in {"Asterisk", "Slash"} THEN Product
    ELSE IF token.kind = "Operator" /\ token.op \in {"BitAnd", "BitOr"} THEN Bitwise
    ELSE Lowest

consume_expect(toks, expected) ==
    LET c == consume(toks) IN
    IF c.tok # None
    THEN IF c.tok # expected
         THEN throw_syntax_error(c.tok, expected)
         ELSE POk(None, c.toks)
    ELSE throw_syntax_error(expected, Text("None"))

\* parse_infix: the BinaryOp built for an operator token, and the precedence
\* at which its right operand is parsed
infix_op(o) ==
    CASE o = "Plus" -> "Add"
      [] o = "Minus" -> "Sub"
      [] o = "Asterisk" -> "Mul"
      [] o = "Slash" -> "Div"
      [] o = "BitAnd" -> "BitAnd"
      [] o = "BitOr" -> "BitOr"

\* a variant that parses the right operand one level lower, which lets an
\* operator of the same level join the right operand
infix_rhs_precedence_lower(o) ==
    CASE o \in {"Plus", "Minus"} -> Lowest
      [] o \in {"Asterisk", "Slash"} -> Sum
      [] o \in {"BitAnd", "BitOr"} -> Product

infix_rhs_precedence(o) ==
    CASE o \in {"Plus", "Minus"} -> Sum
      [] o \in {"Asterisk", "Slash"} -> Product
      [] o \in {"BitAnd", "BitOr"} -> Bitwise

\* a variant that parses the term inside the parentheses at Lowest
paren_term_precedence_lowest == Lowest

\* a variant that parses the argument after the parentheses at Call
paren_arg_precedence_call == Call

\* parse_prefix, LeftParen arm: the precedence of the term inside the
\* parentheses and the precedence of the argument that follows them
paren_term_precedence == Call
paren_arg_precedence == Lowest

RECURSIVE parse_expression(_, _)
RECURSIVE parse_expression_loop(_, _, _)
RECURSIVE parse_prefix(_)
RECURSIVE parse_infix(_, _)
RECURSIVE parse_abstraction(_)
RECURSIVE parse_recursion(_)

\* the `?` operator: an Err (or a panic on its way up) ends the function,
\* an Ok value goes on
Try(r, K(_)) == IF r.kind # "Ok" THEN r ELSE K(r)

parse_expression(toks, precedence) ==
    Try(parse_prefix(toks),
        LAMBDA left : parse_expression_loop(left.val, left.toks, precedence))

parse_expression_loop(left, toks, precedence) ==
    IF look_ahead(toks) = None THEN POk(left, toks)
    ELSE IF get_precedence(look_ahead(toks)) <= precedence THEN POk(left, toks)
    ELSE Try(parse_infix(left, toks),
             LAMBDA r : parse_expression_loop(r.val, r.toks, precedence))

\* a variant that builds the Application with func and arg exchanged
parse_paren_swapped(toks) ==
    Try(parse_expression(toks, paren_term_precedence), LAMBDA expr :
    Try(consume_expect(expr.toks, RP), LAMBDA e :
    Try(parse_expression(e.toks, paren_arg_precedence), LAMBDA arg :
    POk(Application(arg.val, expr.val), arg.toks))))

parse_paren(toks) ==
    Try(parse_expression(toks, paren_term_precedence), LAMBDA expr :
    Try(consume_expect(expr.toks, RP), LAMBDA e :
    Try(parse_expression(e.toks, paren_arg_precedence), LAMBDA arg :
    POk(Application(expr.val, arg.val), arg.toks))))

parse_prefix_of(c) ==
    CASE c.tok.kind = "Identifier" -> POk(Identifier(c.tok.name), c.toks)
      [] c.tok.kind = "Literal" -> POk(Literal(c.tok.value), c.toks)
      [] c.tok.kind = "Lamda" -> parse_abstraction(c.toks)
      [] c.tok.kind = "Recursion" -> parse_recursion(c.toks)
      [] c.tok = LP -> parse_paren(c.toks)
      [] OTHER -> PErr("Unexpected token in prefix position", c.toks)

parse_prefix(toks) == parse_prefix_of(consume(toks))

parse_infix_of(left, c) ==
    IF c.tok.kind = "Operator" /\ c.tok.op \in BinaryOperators
    THEN Try(parse_expression(c.toks, infix_rhs_precedence(c.tok.op)), LAMBDA rhs :
         POk(BinaryOperation(infix_op(c.tok.op), left, rhs.val), rhs.toks))
    ELSE PErr("Unexpected token in infix position", c.toks)

parse_infix(left, toks) == parse_infix_of(left, consume(toks))

parse_abstraction_of(c) ==
    IF c.tok.kind = "Identifier"
    THEN Try(consume_expect(c.toks, DOT), LAMBDA e :
         Try(parse_expression(e.toks, Lowest), LAMBDA body :
         POk(Abstraction(c.tok.name, body.val), body.toks)))
    ELSE throw_syntax_error(Text("parameter"), Text("none"))

parse_abstraction(toks) == parse_abstraction_of(consume(toks))

parse_recursion_body(body) ==
    IF body.kind = "Panic" THEN body
    ELSE Try(consume_expect(body.toks, RP), LAMBDA e :
         Try(body, LAMBDA b : POk(Recursion(b.val), e.toks)))

parse_recursion_of(c) ==
    IF c.tok = LP
    THEN parse_recursion_body(parse_expression(c.toks, Lowest))
    ELSE throw_syntax_error(Text("parameter"), Text("none"))

parse_recursion(toks) == parse_recursion_of(consume(toks))

parse_comment_of(c) == 
    IF c.tok.kind = "Comment" THEN POk(CommentStmt(c.tok.text), c.toks)
    ELSE throw_syntax_error(Text("comment"), Text("Unexpected token"))

parse_comment(toks) == parse_comment_of(consume(toks))

parse_binding_of(c) ==
    IF c.tok.kind # "Identifier" THEN PErr("Expected identifier in binding", c.toks)
    ELSE Try(consume_expect(c.toks, EQ), LAMBDA e :
         Try(parse_expression(e.toks, Lowest), LAMBDA value :
         POk(Binding(c.tok.name, value.val), value.toks)))

parse_binding(toks) == parse_binding_of(consume(toks))

parse_expression_stmt(toks) ==
    Try(parse_expression(toks, Lowest), LAMBDA e : POk(ExpressionStmt(e.val), e.toks))

parse_statement(toks) ==
    CASE look_ahead(toks).kind = "Identifier" ->
            IF Len(toks) >= 2 /\ toks[Len(toks) - 1] = EQ
            THEN parse_binding(toks)
            ELSE parse_expression_stmt(toks)
      [] look_ahead(toks).kind \in {"Lamda", "Literal"} \/ look_ahead(toks) = LP ->
            parse_expression_stmt(toks)
      [] look_ahead(toks).kind = "Comment" -> parse_comment(toks)
      [] look_ahead(toks).kind = "Eof" -> POk(EofStmt, consume(toks).toks)
      [] OTHER -> PErr("Unexpected token at start of statement", toks)

RECURSIVE parse_program_loop(_, _)

\* a variant of the loop that stops in front of the end marker
parse_program_loop_before_eof(statements, toks) ==
    IF Len(toks) = 0 \/ look_ahead(toks) = EOF THEN POk(statements, toks)
    ELSE Try(parse_statement(toks),
             LAMBDA s : parse_program_loop(Append(statements, s.val), s.toks))

\* parse_program: `while !this.tokens.is_empty()`
parse_program_loop(statements, toks) ==
    IF Len(toks) = 0 THEN POk(statements, toks)
    ELSE Try(parse_statement(toks),
             LAMBDA s : parse_program_loop(Append(statements, s.val), s.toks))

parse_program(toks) == parse_program_loop(<<>>, Reverse(toks))

-----------------------------------------------------------------------------
(* Numbers (f64).  Exact fractions stand for the finite values; rounding    *)
(* and the sign of zero are not modelled.  A result whose numerator or      *)
(* denominator leaves -MaxAbs..MaxAbs is outside the model (InRange).       *)

MaxAbs == 10000

NaN == [num |-> 0, den |-> 0]
Inf(sign) == [num |-> sign, den |-> 0]
IsNaN(x) == x.den = 0 /\ x.num = 0
IsInf(x) == x.den = 0 /\ x.num # 0
Abs(n) == IF n < 0 THEN -n ELSE n
Sign(n) == IF n < 0 THEN -1 ELSE IF n > 0 THEN 1 ELSE 0

RECURSIVE Gcd(_, _)
Gcd(a, b) == IF b = 0 THEN a ELSE Gcd(b, a % b)

\* the fraction n/d, d # 0, in lowest terms with a positive denominator
Frac(n, d) ==
    LET g == Gcd(Abs(n), Abs(d)) IN
    [num |-> Sign(d) * (n \div g), den |-> Abs(d) \div g]

InRange(x) == Abs(x.num) <= MaxAbs /\ x.den <= MaxAbs

Neg(x) == [num |-> -x.num, den |-> x.den]

\* l + r
FAdd(l, r) ==
    IF IsNaN(l) \/ IsNaN(r) THEN NaN
    ELSE IF IsInf(l) /\ IsInf(r) THEN (IF l.num = r.num THEN l ELSE NaN)
    ELSE IF IsInf(l) THEN l
    ELSE IF IsInf(r) THEN r
    ELSE Frac(l.num * r.den + r.num * l.den, l.den * r.den)

\* l - r
FSub(l, r) == FAdd(l, Neg(r))

\* l * r
FMul(l, r) ==
    IF IsNaN(l) \/ IsNaN(r) THEN NaN
    ELSE IF IsInf(l) \/ IsInf(r)
         THEN (IF l.num = 0 \/ r.num = 0 THEN NaN ELSE Inf(Sign(l.num) * Sign(r.num)))
    ELSE Frac(l.num * r.num, l.den * r.den)

\* l / r: x/0 is an infinity (0/0 is NaN), x/inf is 0
FDiv(l, r) ==
    IF IsNaN(l) \/ IsNaN(r) THEN NaN
    ELSE IF IsInf(l) THEN (IF IsInf(r) THEN NaN
                           ELSE Inf(l.num * (IF r.num < 0 THEN -1 ELSE 1)))
    ELSE IF IsInf(r) THEN Num(0)
    ELSE IF r.num = 0 THEN (IF l.num = 0 THEN NaN ELSE Inf(Sign(l.num)))
    ELSE Frac(l.num * r.den, l.den * r.num)

\* l >= r on numbers (false when either is NaN)
FGe(l, r) ==
    IF IsNaN(l) \/ IsNaN(r) THEN FALSE
    ELSE IF IsInf(l) THEN l.num = 1 \/ (IsInf(r) /\ r.num = -1)
    ELSE IF IsInf(r) THEN r.num = -1
    ELSE l.num * r.den >= r.num * l.den

\* `x as u64` and `x as u8` saturate: NaN and negatives give 0, a fraction is
\* truncated.  +inf gives the type's maximum; u64::MAX is outside the model.
CastFinite(x) == x.den # 0
AsUnsigned(x) == IF x.den = 0 \/ x.num < 0 THEN 0 ELSE x.num \div x.den

RECURSIVE BitAndN(_, _)
BitAndN(a, b) ==
    IF a = 0 \/ b = 0 THEN 0
    ELSE (a % 2) * (b % 2) + 2 * BitAndN(a \div 2, b \div 2)

RECURSIVE BitOrN(_, _)
BitOrN(a, b) ==
    IF a = 0 THEN b
    ELSE IF b = 0 THEN a
    ELSE (IF a % 2 = 1 \/ b % 2 = 1 THEN 1 ELSE 0) + 2 * BitOrN(a \div 2, b \div 2)

-----------------------------------------------------------------------------
(* Values and scopes (interpreter.rs EvaluationValue, Abstraction, Scope)   *)

VLiteral(x) == [tag |-> "Literal", value |-> x]
Closer(param, body, env) == [tag |-> "Closer", param |-> param, body |-> body, env |-> env]
Unit == [tag |-> "Unit"]
VRecursion(expr) == [tag |-> "Recursion", expr |-> expr]
HALT == [tag |-> "HALT"]
\* Option::None of Scope::get, and a field of the history not filled in
NoVal == [tag |-> "NoVal"]

\* An Environment (Rc<RefCell<Scope>>) is an index into `frames`; parent 0 is
\* Option::None.  Frames are never removed from `frames`.
Scope_global == [bindings |-> <<>>, parent |-> 0]
Scope_inner(parent) == [bindings |-> <<>>, parent |-> parent]
Scope_set(scope, name, value) ==
    [scope EXCEPT !.bindings = (name :> value) @@ scope.bindings]

RECURSIVE Scope_get(_, _, _)

\* a variant that prefers the binding of an outer frame
Scope_get_outer_first(fr, env, name) ==
    IF fr[env].parent # 0 /\ Scope_get(fr, fr[env].parent, name) # NoVal
    THEN Scope_get(fr, fr[env].parent, name)
    ELSE IF name \in DOMAIN fr[env].bindings THEN fr[env].bindings[name]
    ELSE NoVal

\* Scope::get: the frame's own binding, else the parent's get, else None
Scope_get(fr, env, name) ==
    IF name \in DOMAIN fr[env].bindings THEN fr[env].bindings[name]
    ELSE IF fr[env].parent # 0 THEN Scope_get(fr, fr[env].parent, name)
    ELSE NoVal

-----------------------------------------------------------------------------
(* Evaluator (interpreter.rs).  The evaluation functions take and return    *)
(* the interpreter's state `st`:                                            *)
(*   frames, out, kbd  as the variables of the same names,                  *)
(*   log   the history: one "apply" record per call of evaluate_appliation  *)
(*         and one "lookup" record per Identifier evaluated,                *)
(*   cur   the log index of the evaluate_appliation call being executed     *)
(*         (0 at statement level),                                          *)
(*   fuel  the evaluate_expr calls the model still follows.                 *)
(* A result is Ok (a value), Err (anyhow error), Cut (the model stops: fuel *)
(* or number range exhausted, no clock reading left) or Blocked (input is   *)
(* waiting for a key that never comes).                                     *)

EOk(v, st) == [kind |-> "Ok", val |-> v, st |-> st]
EErr(msg, st) == [kind |-> "Err", msg |-> msg, bail |-> TRUE, st |-> st]
ECut(st) == [kind |-> "Cut", st |-> st]
EBlocked(st) == [kind |-> "Blocked", st |-> st]

\* what the history keeps of a result
Outcome(r) == IF r.kind = "Ok" THEN r.val ELSE [tag |-> r.kind]

ApplyEv(parent, rc, func, env) ==
    [ev |-> "apply", parent |-> parent, rc |-> rc, func |-> func, env |-> env,
     fun |-> NoVal,      \* evaluated_fun_value
     argv |-> NoVal,     \* evaluated_arg_value
     new_env |-> 0,      \* the frame created for the call
     body |-> NoVal,     \* value of the closure body
     inner |-> NoVal,    \* value of the recursion marker's expression
     cap |-> <<>>,       \* the capability call of the builtin dispatch
     tail |-> 0,         \* log index of the tail-loop re-application
     res |-> NoVal]

\* the history record of the call being executed gets a field filled in
Note(st, field, v) == [st EXCEPT !.log[st.cur][field] = v]

\* leaving evaluate_appliation: the record of the call is completed
Leave(r, caller) ==
    [r EXCEPT !.st = [Note(r.st, "res", Outcome(r)) EXCEPT !.cur = caller]]

(* Builtin capabilities (abstractions.rs).  A call is recorded in `out`    *)
(* with what it was given and what it returned.  Writes to stdout are taken *)
(* to succeed.                                                              *)
Capability(st, name, args, ret) ==
    [st EXCEPT !.out = Append(@, [cap |-> name, args |-> args, ret |-> ret])]

\* a capability's Err: the value of the dispatch match, not a bail!
CapErr(msg, st) == [kind |-> "Err", msg |-> msg, bail |-> FALSE, st |-> st]
ErrVal == [tag |-> "Err"]

abstraction_ascii(byte, st) ==
    EOk(VLiteral(Num(byte)),
        Capability(st, "ascii", <<Num(byte)>>, VLiteral(Num(byte))))

abstraction_print(numeric_value, st) ==
    EOk(VLiteral(numeric_value),
        Capability(st, "print", <<numeric_value>>, VLiteral(numeric_value)))

\* sleeps for `time as u64` milliseconds
abstraction_sleep(time, st) ==
    EOk(VLiteral(time), Capability(st, "sleep", <<time>>, VLiteral(time)))

\* the clock reading is the next delivery of `kbd`, NaN standing for a clock
\* set before the epoch; with no delivery left the model stops
abstraction_time(st) ==
    IF Len(st.kbd) = 0 THEN ECut(Capability(st, "time", <<>>, NoVal))
    ELSE IF st.kbd[1] = NaN
    THEN CapErr("SystemTimeError difference",
                Capability([st EXCEPT !.kbd = Tail(@)], "time", <<>>, ErrVal))
    ELSE EOk(VLiteral(st.kbd[1]),
             Capability([st EXCEPT !.kbd = Tail(@)], "time", <<>>, VLiteral(st.kbd[1])))

\* waits for a key: the key code is the next delivery of `kbd`, as a byte
abstraction_input_char(st) ==
    IF Len(st.kbd) = 0 THEN EBlocked(Capability(st, "input_char", <<>>, NoVal))
    ELSE EOk(VLiteral(Num(AsUnsigned(st.kbd[1]) % 256)),
             Capability([st EXCEPT !.kbd = Tail(@)], "input_char", <<>>,
                        VLiteral(Num(AsUnsigned(st.kbd[1]) % 256))))

\* reads a line: the next delivery of `kbd` is the number typed, NaN standing
\* for a line that str::parse::<f64> rejects (such as the empty line)
abstraction_input_numeric(st) ==
    IF Len(st.kbd) = 0 THEN EBlocked(Capability(st, "input_numeric", <<>>, NoVal))
    ELSE IF st.kbd[1] = NaN
    THEN CapErr("invalid float literal",
                Capability([st EXCEPT !.kbd = Tail(@)], "input_numeric", <<>>, ErrVal))
    ELSE EOk(VLiteral(st.kbd[1]),
             Capability([st EXCEPT !.kbd = Tail(@)], "input_numeric", <<>>,
                        VLiteral(st.kbd[1])))

\* a variant of the dispatch without the "print" arm
builtin_dispatch_no_print(param, func_result, st) ==
    CASE param = "ascii" ->
            IF func_result.tag = "Literal" /\ ~FGe(func_result.value, Num(255))
            THEN abstraction_ascii(AsUnsigned(func_result.value), st)
            ELSE EErr("ascii only takes ASCII values", st)
      [] param = "input" ->
            IF func_result = VLiteral(Num(0)) THEN abstraction_input_char(st)
            ELSE IF func_result = VLiteral(Num(1)) THEN abstraction_input_numeric(st)
            ELSE EErr("input only takes numeric value either, 0, or 1.", st)
      [] param = "time" -> abstraction_time(st)
      [] param = "sleep" ->
            IF func_result.tag = "Literal"
            THEN abstraction_sleep(func_result.value, st)
            ELSE EErr("raw only takes numeric value.", st)
      [] OTHER -> EOk(func_result, st)

\* evaluate_appliation, `match abstraction.param.as_str()`.  An error of a
\* match arm (bail!) returns from evaluate_appliation; a capability's own
\* Result is the value of the match.
builtin_dispatch(param, func_result, st) ==
    CASE param = "ascii" ->
            IF func_result.tag = "Literal" /\ FGe(func_result.value, Num(255))
            THEN EErr("ascii only takes ASCII values", st)
            ELSE IF func_result.tag = "Literal"
            THEN abstraction_ascii(AsUnsigned(func_result.value), st)
            ELSE EErr("ascii only takes ASCII values", st)
      [] param = "input" ->
            IF func_result = VLiteral(Num(0)) THEN abstraction_input_char(st)
            ELSE IF func_result = VLiteral(Num(1)) THEN abstraction_input_numeric(st)
            ELSE EErr("input only takes numeric value either, 0, or 1.", st)
      [] param = "time" -> abstraction_time(st)
      [] param = "print" ->
            IF func_result.tag = "Literal"
            THEN abstraction_print(func_result.value, st)
            ELSE EErr("raw only takes numeric value.", st)
      [] param = "sleep" ->
            IF func_result.tag = "Literal"
            THEN abstraction_sleep(func_result.value, st)
            ELSE EErr("raw only takes numeric value.", st)
      [] OTHER -> EOk(func_result, st)

\* a variant whose sentinel is the literal 1
recursion_halts_at_one(recursion_context, evaluated_arg_value) ==
    recursion_context /\ evaluated_arg_value = VLiteral(Num(1))

\* a variant of the check that does not look at the recursion context
recursion_halts_any_context(recursion_context, evaluated_arg_value) ==
    evaluated_arg_value = VLiteral(Num(0))

\* evaluate_appliation: the early return in recursion context
recursion_halts(recursion_context, evaluated_arg_value) ==
    recursion_context /\ evaluated_arg_value = VLiteral(Num(0))

\* a variant with dynamic scoping: the new frame's parent is the caller's
new_env_parent_caller(abstraction, env) == env

\* evaluate_appliation: the parent of the frame created for a call made
\* from `env`
new_env_parent(abstraction, env) == abstraction.env

\* a variant that sets the parameter in the captured frame itself and
\* leaves the new scope empty
bind_parameter_in_captured(fr, abstraction, env, evaluated_arg_value) ==
    Append([fr EXCEPT ![abstraction.env] =
                Scope_set(@, abstraction.param, evaluated_arg_value)],
           Scope_inner(abstraction.env))

\* a variant that sets the parameter in the caller's frame as well
bind_parameter_in_caller_too(fr, abstraction, env, evaluated_arg_value) ==
    Append([fr EXCEPT ![env] = Scope_set(@, abstraction.param, evaluated_arg_value)],
           Scope_set(Scope_inner(abstraction.env), abstraction.param, evaluated_arg_value))

\* evaluate_appliation: Scope::inner over the captured environment and the
\* parameter set in it; the new scope is the last of the frames
bind_parameter(fr, abstraction, env, evaluated_arg_value) ==
    Append(fr, Scope_set(Scope_inner(new_env_parent(abstraction, env)),
                         abstraction.param, evaluated_arg_value))

\* evaluate_binary: `match op`
binary_result(op, l, r) ==
    CASE op = "Add" -> FAdd(l, r)
      [] op = "Sub" -> FSub(l, r)
      [] op = "Mul" -> FMul(l, r)
      [] op = "Div" -> FDiv(l, r)
      [] op = "BitAnd" -> Num(BitAndN(AsUnsigned(l), AsUnsigned(r)))
      [] op = "BitOr" -> Num(BitOrN(AsUnsigned(l), AsUnsigned(r)))

RECURSIVE evaluate_expr(_, _, _)
RECURSIVE evaluate_binary(_, _, _, _, _)
RECURSIVE evaluate_appliation(_, _, _, _, _)

\* Expr::Identifier arm; `val` is env.borrow().get(name)
evaluate_identifier(name, env, val, st) ==
    IF val # NoVal
    THEN EOk(val, [st EXCEPT !.log = Append(@,
            [ev |-> "lookup", name |-> name, env |-> env, fr |-> st.frames, res |-> val])])
    ELSE EErr("Unbound binding", [st EXCEPT !.log = Append(@,
            [ev |-> "lookup", name |-> name, env |-> env, fr |-> st.frames, res |-> val])])

\* a variant that captures a copy of the frame: the closure's environment
\* is a new frame holding what `env` holds at the creation
evaluate_abstraction_by_copy(param, body, env, st) ==
    EOk(Closer(param, body, Len(st.frames) + 1),
        [st EXCEPT !.frames = Append(@, @[env])])

\* Expr::Abstraction arm: `env: Rc::clone(&env)`, the frame itself is shared
evaluate_abstraction(param, body, env, st) == EOk(Closer(param, body, env), st)

\* Expr::ApplicationIf is never built by the parser; its arm is left out.
evaluate_expr_match(expr, env, st) ==
    CASE expr.tag = "Literal" -> EOk(VLiteral(expr.value), st)
      [] expr.tag = "Identifier" ->
            evaluate_identifier(expr.name, env, Scope_get(st.frames, env, expr.name), st)
      [] expr.tag = "BinaryOperation" ->
            evaluate_binary(expr.op, expr.lhs, expr.rhs, env, st)
      [] expr.tag = "Abstraction" -> evaluate_abstraction(expr.param, expr.body, env, st)
      [] expr.tag = "Application" ->
            evaluate_appliation(expr.func, expr.arg, env, FALSE, st)
      [] expr.tag = "Recursion" -> EOk(VRecursion(expr.inner), st)

evaluate_expr(expr, env, st) ==
    IF st.fuel = 0 THEN ECut(st)
    ELSE evaluate_expr_match(expr, env, [st EXCEPT !.fuel = @ - 1])

\* evaluate_binary once both operands are evaluated
binary_step(op, lhs_result, rhs_result, st) ==
    IF lhs_result.tag # "Literal" \/ rhs_result.tag # "Literal"
    THEN EErr("Expected numeric literal for binary operations", st)
    ELSE IF op \in {"BitAnd", "BitOr"}
            /\ ~(CastFinite(lhs_result.value) /\ CastFinite(rhs_result.value))
    THEN ECut(st)
    ELSE IF InRange(binary_result(op, lhs_result.value, rhs_result.value))
    THEN EOk(VLiteral(binary_result(op, lhs_result.value, rhs_result.value)), st)
    ELSE ECut(st)

evaluate_binary(op, lhs, rhs, env, st) ==
    Try(evaluate_expr(lhs, env, st), LAMBDA lhs_result :
    Try(evaluate_expr(rhs, env, lhs_result.st), LAMBDA rhs_result :
    binary_step(op, lhs_result.val, rhs_result.val, rhs_result.st)))

\* `return self.evaluate_appliation(&func, &rec_args, new_env, true)`, as a
\* result that asks evaluate_appliation to make that call
ETail(func, rec_args, new_env, st) ==
    [kind |-> "Tail", func |-> func, arg |-> rec_args, env |-> new_env, st |-> st]

\* after the builtin dispatch: a bail! of the dispatch has returned; with
\* recursion_args the call is made again in the new frame, in recursion
\* context, and the dispatch's value is dropped
apply_return(func, new_env, recursion_args, d) ==
    IF d.kind \in {"Cut", "Blocked"} \/ (d.kind = "Err" /\ d.bail) THEN d
    ELSE IF recursion_args # <<>>
    THEN ETail(func, recursion_args[1], new_env, Note(d.st, "tail", Len(d.st.log) + 1))
    ELSE d

\* the capability calls made since `out` had nout entries are noted
note_cap(d, nout) ==
    [d EXCEPT !.st = Note(d.st, "cap", SubSeq(d.st.out, nout + 1, Len(d.st.out)))]

\* the builtin dispatch, with the capability call it made noted
apply_dispatch(param, func_result, st) ==
    note_cap(builtin_dispatch(param, func_result, st), Len(st.out))

\* a variant without the Halt return: the dispatch gets every value
apply_result_dispatches_halt(func, abstraction, new_env, func_result, recursion_args, st) ==
    apply_return(func, new_env, recursion_args,
                 apply_dispatch(abstraction.param, func_result, st))

\* from `if matches!(func_result, EvaluationValue::HALT)` on
apply_result(func, abstraction, new_env, func_result, recursion_args, st) ==
    IF func_result = HALT THEN EOk(HALT, st)
    ELSE apply_return(func, new_env, recursion_args,
                      apply_dispatch(abstraction.param, func_result, st))

\* a variant of the block that hands the marker back to the caller
apply_recursion_returns_marker(func, abstraction, new_env, rec_args, st) ==
    EOk(VRecursion(rec_args), st)

\* a variant of the block that keeps the validated value for the call made
\* again, in place of the marker's expression
apply_recursion_keeps_value(func, abstraction, new_env, rec_args, st) ==
    Try(evaluate_expr(rec_args, new_env, st), LAMBDA inner :
    IF inner.val.tag \notin {"Literal", "HALT"}
    THEN EErr("Recursion only takes numeric value.", Note(inner.st, "inner", inner.val))
    ELSE apply_result(func, abstraction, new_env, inner.val,
                      IF inner.val.tag = "Literal" THEN <<Literal(inner.val.value)>>
                      ELSE <<rec_args>>,
                      Note(inner.st, "inner", inner.val)))

\* the `if let EvaluationValue::Recursion(rec_args) = func_result` block
apply_recursion(func, abstraction, new_env, rec_args, st) ==
    Try(evaluate_expr(rec_args, new_env, st), LAMBDA inner :
    IF inner.val.tag \notin {"Literal", "HALT"}
    THEN EErr("Recursion only takes numeric value.", Note(inner.st, "inner", inner.val))
    ELSE apply_result(func, abstraction, new_env, inner.val, <<rec_args>>,
                      Note(inner.st, "inner", inner.val)))

\* the Closer arm: a new scope, the parameter bound, the body evaluated
apply_closure(func, abstraction, env, evaluated_arg_value, new_env, st) ==
    Try(evaluate_expr(abstraction.body, new_env,
            Note([st EXCEPT !.frames =
                    bind_parameter(@, abstraction, env, evaluated_arg_value)],
                 "new_env", new_env)),
        LAMBDA body :
        IF body.val.tag = "Recursion"
        THEN apply_recursion(func, abstraction, new_env, body.val.expr,
                             Note(body.st, "body", body.val))
        ELSE apply_result(func, abstraction, new_env, body.val, <<>>,
                          Note(body.st, "body", body.val)))

\* the recursion-context check and `match evaluated_fun_value`
apply_match(func, env, recursion_context, evaluated_fun_value, evaluated_arg_value, st) ==
    IF recursion_halts(recursion_context, evaluated_arg_value) THEN EOk(HALT, st)
    ELSE CASE evaluated_fun_value.tag = "Closer" ->
                apply_closure(func, evaluated_fun_value, env, evaluated_arg_value,
                              Len(st.frames) + 1, st)
           [] evaluated_fun_value.tag = "Literal" -> EOk(evaluated_fun_value, st)
           [] evaluated_fun_value.tag = "Unit" -> EOk(Unit, st)
           [] evaluated_fun_value.tag = "HALT" -> EOk(HALT, st)
           [] OTHER -> EErr("Unexpected evaluation value!", st)

\* a variant that returns a Literal or Halt function value at once, the
\* argument expression not evaluated
apply_operands_function_first(func, arg, env, recursion_context, st) ==
    Try(evaluate_expr(func, env, st), LAMBDA f :
    IF f.val.tag \in {"Literal", "HALT"}
    THEN EOk(f.val, Note(f.st, "fun", f.val))
    ELSE Try(evaluate_expr(arg, env, Note(f.st, "fun", f.val)), LAMBDA a :
         apply_match(func, env, recursion_context, f.val, a.val, Note(a.st, "argv", a.val))))

\* the function expression, then the argument expression, both in `env`
apply_operands(func, arg, env, recursion_context, st) ==
    Try(evaluate_expr(func, env, st), LAMBDA f :
    Try(evaluate_expr(arg, env, Note(f.st, "fun", f.val)), LAMBDA a :
    apply_match(func, env, recursion_context, f.val, a.val, Note(a.st, "argv", a.val))))

\* the call asked for by ETail: its result is the result of the call that
\* makes it
tail_call(r) ==
    IF r.kind = "Tail"
    THEN evaluate_appliation(r.func, r.arg, r.env, TRUE, r.st)
    ELSE r

evaluate_appliation(func, arg, env, recursion_context, st) ==
    Leave(tail_call(apply_operands(func, arg, env, recursion_context,
              [st EXCEPT !.log = Append(@, ApplyEv(st.cur, recursion_context, func, env)),
                         !.cur = Len(st.log) + 1])),
          st.cur)

\* evaluate_statement, in the global frame (frames[1] is self.env)
evaluate_statement(statement, st) ==
    CASE statement.tag = "Binding" ->
            Try(evaluate_expr(statement.value, 1, st), LAMBDA evaluated_value :
            EOk(evaluated_value.val,
                [evaluated_value.st EXCEPT !.frames[1] =
                    Scope_set(@, statement.name, evaluated_value.val)]))
      [] statement.tag = "ExpressionStmt" -> evaluate_expr(statement.expr, 1, st)
      [] statement.tag \in {"Comment", "Eof"} -> EOk(Unit, st)

-----------------------------------------------------------------------------
(* Lexer (lexer.rs).  Lexer.tokens is the vector of the source's characters, *)
(* a sequence of one-character strings here; the two keyword characters are *)
(* U+03BB and U+1D453 and are written LamdaCh and RecursionCh.              *)

AsciiDigits == {"0", "1", "2", "3", "4", "5", "6", "7", "8", "9"}
AsciiAlphabetic ==
    {"a", "b", "c", "d", "e", "f", "g", "h", "i", "j", "k", "l", "m",
     "n", "o", "p", "q", "r", "s", "t", "u", "v", "w", "x", "y", "z",
     "A", "B", "C", "D", "E", "F", "G", "H", "I", "J", "K", "L", "M",
     "N", "O", "P", "Q", "R", "S", "T", "U", "V", "W", "X", "Y", "Z"}
Whitespace == {" ", "\t", "\n", "\r"}
LamdaCh == "lamda"
RecursionCh == "recursion"
\* Option<char>::None
NoCh == ""

DigitValue(ch) ==
    CASE ch = "0" -> 0 [] ch = "1" -> 1 [] ch = "2" -> 2 [] ch = "3" -> 3
      [] ch = "4" -> 4 [] ch = "5" -> 5 [] ch = "6" -> 6 [] ch = "7" -> 7
      [] ch = "8" -> 8 [] ch = "9" -> 9

\* String -> identifier name: the characters joined
RECURSIVE Joined(_)
Joined(chars) == IF chars = <<>> THEN "" ELSE chars[1] \o Joined(Tail(chars))

LexOk(tok, offset) == [kind |-> "Ok", tok |-> tok, offset |-> offset]
throw_lexer_syntax_error(expected, unexpected) ==
    [kind |-> "Panic", msg |-> "Lexer Syntax Error", expected |-> expected,
     unexpected |-> unexpected]

get_ch_at(src, offset, n) == IF n < Len(src) THEN src[offset + 1] ELSE NoCh
Lexer_look_ahead(src, offset) == get_ch_at(src, offset, offset)
saturating_sub(a, b) == IF a >= b THEN a - b ELSE 0

\* the predicates handed to consume_while; the digit filter carries its
\* captured last_was_underscore from call to call
Whitespaces == [name |-> "is_whitespace", last_was_underscore |-> FALSE]
NotNewline == [name |-> "not_newline", last_was_underscore |-> FALSE]
IdentifierRest == [name |-> "alphanumeric_or_underscore", last_was_underscore |-> FALSE]
digit_underscore_filter(last_was_underscore) ==
    [name |-> "digit_underscore_filter", last_was_underscore |-> last_was_underscore]

predicate(p, ch) ==
    CASE p.name = "is_whitespace" -> [valid |-> ch \in Whitespace, p |-> p]
      [] p.name = "not_newline" -> [valid |-> ch # "\n", p |-> p]
      [] p.name = "alphanumeric_or_underscore" ->
            [valid |-> ch \in AsciiAlphabetic \cup AsciiDigits \cup {"_"}, p |-> p]
      [] p.name = "digit_underscore_filter" ->
            IF p.last_was_underscore /\ ch = "_"
            THEN [valid |-> FALSE, p |-> p]
            ELSE [valid |-> ch \in AsciiDigits \cup {"_"},
                  p |-> digit_underscore_filter(ch = "_")]

\* consume_while: every accepted character is pushed, underscores included
RECURSIVE consume_while_from(_, _, _, _)
consume_while_test(src, offset, literal, ch, t) ==
    IF ~t.valid
    THEN [literal |-> literal, offset |-> saturating_sub(offset + 1, 1), p |-> t.p]
    ELSE consume_while_from(src, offset + 1, t.p, Append(literal, ch))

consume_while_char(src, offset, p, literal, ch) ==
    IF ch = NoCh
    THEN [literal |-> literal, offset |-> offset + 1, p |-> p]
    ELSE consume_while_test(src, offset, literal, ch, predicate(p, ch))

consume_while_from(src, offset, p, literal) ==
    consume_while_char(src, offset, p, literal, get_ch_at(src, offset, offset))

consume_while(src, offset, p) == consume_while_from(src, offset, p, <<>>)

RECURSIVE DigitsValue(_)
DigitsValue(ds) ==
    IF ds = <<>> THEN 0
    ELSE 10 * DigitsValue(SubSeq(ds, 1, Len(ds) - 1)) + DigitValue(ds[Len(ds)])

RECURSIVE Pow10(_)
Pow10(n) == IF n = 0 THEN 1 ELSE 10 * Pow10(n - 1)

\* position of the first c in text, 0 when there is none
IndexOf(text, c) ==
    IF \E i \in 1..Len(text) : text[i] = c
    THEN CHOOSE i \in 1..Len(text) : text[i] = c /\ \A j \in 1..(i - 1) : text[j] # c
    ELSE 0

\* text before the first c (all of it when there is none), and after it
Before(text, i) == IF i = 0 THEN text ELSE SubSeq(text, 1, i - 1)
After(text, i) == IF i = 0 THEN <<>> ELSE SubSeq(text, i + 1, Len(text))
Unsigned(ex) == IF ex # <<>> /\ ex[1] \in {"+", "-"} THEN Tail(ex) ELSE ex

\* the number of integer digits int, fraction digits frac and exponent ex
decimal_of(int, frac, ex, m, x) ==
    IF ex # <<>> /\ ex[1] = "-"
    THEN Frac(m, Pow10(Len(frac)) * Pow10(x))
    ELSE Frac(m * Pow10(x), Pow10(Len(frac)))

decimal_parts(int, frac, e, ex) ==
    IF int \o frac = <<>> \/ (e # 0 /\ Unsigned(ex) = <<>>)
    THEN [kind |-> "Err"]
    ELSE [kind |-> "Ok",
          val |-> decimal_of(int, frac, ex, DigitsValue(int \o frac),
                             DigitsValue(Unsigned(ex)))]

decimal_mantissa(mant, d, e, ex) == decimal_parts(Before(mant, d), After(mant, d), e, ex)
decimal_exponent(t, e) ==
    decimal_mantissa(Before(t, e), IndexOf(Before(t, e), "."), e, After(t, e))
NotUnderscore(c) == c # "_"

\* the number a decimal float text denotes when its underscores are skipped
decimal_value(text) ==
    decimal_exponent(SelectSeq(text, NotUnderscore),
                     IndexOf(SelectSeq(text, NotUnderscore), "E"))

\* str::parse::<f64> on the scanned text: decimal digits, an optional
\* fraction, an optional exponent; any other character, '_' included, is an
\* invalid float literal
parse_f64(text) ==
    IF \E i \in 1..Len(text) : text[i] \notin AsciiDigits \cup {".", "E", "+", "-"}
    THEN [kind |-> "Err"]
    ELSE decimal_value(text)

\* get_token, the ch.is_ascii_digit() arm; offset is past the first digit
scan_exponent_digits(numeric_literal, sign, digits) ==
    IF digits.literal = <<>>
    THEN throw_lexer_syntax_error("Standard Number", "Malformed Number")
    ELSE [kind |-> "Ok", offset |-> digits.offset,
          literal |-> numeric_literal \o <<"E">> \o sign \o digits.literal]

scan_exponent_sign(src, numeric_literal, offset, p, sign) ==
    IF sign \in {"+", "-"}
    THEN scan_exponent_digits(numeric_literal, <<sign>>, consume_while(src, offset + 1, p))
    ELSE scan_exponent_digits(numeric_literal, <<>>, consume_while(src, offset, p))

scan_exponent(src, f) ==
    IF Lexer_look_ahead(src, f.offset) \in {"e", "E"}
    THEN scan_exponent_sign(src, f.literal, f.offset + 1, f.p,
                            Lexer_look_ahead(src, f.offset + 1))
    ELSE [kind |-> "Ok", offset |-> f.offset, literal |-> f.literal]

scan_fraction_digits(numeric_literal, f) ==
    [literal |-> numeric_literal \o <<".">> \o f.literal, offset |-> f.offset, p |-> f.p]

scan_fraction(src, numeric_literal, i) ==
    IF Lexer_look_ahead(src, i.offset) = "."
    THEN scan_fraction_digits(numeric_literal, consume_while(src, i.offset + 1, i.p))
    ELSE [literal |-> numeric_literal, offset |-> i.offset, p |-> i.p]

scan_number_literal(n, offset) ==
    IF n.kind = "Ok"
    THEN LexOk([kind |-> "Literal", value |-> n.val], offset)
    ELSE throw_lexer_syntax_error("Standard Number", "Malformed Number")

scan_number_parse(x) ==
    IF x.kind = "Panic" THEN x ELSE scan_number_literal(parse_f64(x.literal), x.offset)

scan_number_integer(src, ch, i) ==
    scan_number_parse(scan_exponent(src, scan_fraction(src, <<ch>> \o i.literal, i)))

scan_number(src, offset, ch) ==
    scan_number_integer(src, ch, consume_while(src, offset, digit_underscore_filter(ch = "_")))

\* get_token, the '/' arm
scan_comment(c) ==
    IF c.literal # <<>> /\ c.literal[Len(c.literal)] = "\r"
    THEN LexOk(Cmt(Joined(SubSeq(c.literal, 1, Len(c.literal) - 1))), c.offset)
    ELSE LexOk(Cmt(Joined(c.literal)), c.offset)

scan_slash(src, offset) ==
    IF Lexer_look_ahead(src, offset) = "/"
    THEN scan_comment(consume_while(src, offset + 1, NotNewline))
    ELSE LexOk(Op("Slash"), offset)

scan_identifier_rest(ch, r) == LexOk(Id(Joined(<<ch>> \o r.literal)), r.offset)
scan_identifier(src, offset, ch) ==
    scan_identifier_rest(ch, consume_while(src, offset, IdentifierRest))

get_token_match(src, ch, offset) ==
    CASE ch = NoCh -> LexOk(EOF, offset)
      [] ch = "(" -> LexOk(Op("LeftParen"), offset)
      [] ch = ")" -> LexOk(Op("RightParen"), offset)
      [] ch = "*" -> LexOk(Op("Asterisk"), offset)
      [] ch = "/" -> scan_slash(src, offset)
      [] ch = "-" -> LexOk(Op("Minus"), offset)
      [] ch = "+" -> LexOk(Op("Plus"), offset)
      [] ch = "=" -> LexOk(Op("Equal"), offset)
      [] ch = "." -> LexOk(Op("Dot"), offset)
      [] ch = "&" -> LexOk(Op("BitAnd"), offset)
      [] ch = "|" -> LexOk(Op("BitOr"), offset)
      [] ch = LamdaCh -> LexOk(LAMDA, offset)
      [] ch = RecursionCh -> LexOk(REC, offset)
      [] ch \in AsciiAlphabetic \cup {"_"} -> scan_identifier(src, offset, ch)
      [] ch \in AsciiDigits -> scan_number(src, offset, ch)
      [] OTHER -> throw_lexer_syntax_error("Valid Token", ch)

get_token_at(src, start) == get_token_match(src, get_ch_at(src, start, start), start + 1)
get_token(src, offset) == get_token_at(src, consume_while(src, offset, Whitespaces).offset)

RECURSIVE get_tokens_from(_, _, _)
get_tokens_push(src, toks, t) ==
    IF t.kind = "Panic" THEN t
    ELSE IF t.tok = EOF THEN [kind |-> "Ok", val |-> Append(toks, EOF)]
    ELSE get_tokens_from(src, t.offset, Append(toks, t.tok))

get_tokens_from(src, offset, toks) == get_tokens_push(src, toks, get_token(src, offset))

get_tokens(src) == get_tokens_from(src, 0, <<>>)

-----------------------------------------------------------------------------
(* Inputs: the token vectors and terminal deliveries the runs start from.   *)
(* Every token vector ends with one Eof, as Lexer::get_tokens builds it.    *)

MaxTokLen == 4      \* length of the exhaustively enumerated token vectors
MaxN == 4           \* largest starting literal of the counter programs
Fuel == 60          \* evaluate_expr calls followed per statement

Plus == Op("Plus")
Minus == Op("Minus")
Star == Op("Asterisk")

\* a op1 b op2 c
Operands == {Id("x"), Lit(2), Lit(3), Lit(4), Lit(10)}
InfixInputs ==
    {<<a, Op(o1), b, Op(o2), c>> :
        a \in Operands, b \in Operands, c \in Operands,
        o1 \in BinaryOperators, o2 \in BinaryOperators}

\* every token vector of up to MaxTokLen tokens over ShortAlphabet
ShortAlphabet == {Id("x"), Lit(1), LP, RP, Plus, LAMDA, DOT}
ShortInputs == UNION {[1..n -> ShortAlphabet] : n \in 0..MaxTokLen}

\* "(" operand operator, behind a prefix and before a suffix
ParenPrefixes ==
    {<<>>, <<Id("x"), EQ>>, <<Id("x"), EQ, REC>>, <<LAMDA, Id("x"), DOT>>,
     <<LAMDA, Id("x"), DOT, REC>>, <<LP, Id("x"), RP>>, <<Lit(1), Plus>>,
     <<LP, REC>>, <<REC>>}
ParenSuffixAlphabet == {Lit(1), RP, Id("x"), LP}
ParenSuffixes == UNION {[1..n -> ParenSuffixAlphabet] : n \in 0..3}
ParenInputs ==
    {p \o <<LP, a, Op(o)>> \o t :
        p \in ParenPrefixes, a \in {Id("x"), Lit(2)}, o \in {"Plus", "Asterisk", "BitOr"},
        t \in ParenSuffixes}

\* the bindings the evaluator programs start with
\*   k = 1   c = \n.F(n-1)   f = \x.y   a = \x.\y.x*y   h = \z.F(0)   i = \x.x
Prelude ==
    <<Id("k"), EQ, Lit(1)>>
    \o <<Id("c"), EQ, LAMDA, Id("n"), DOT, REC, LP, Id("n"), Minus, Lit(1), RP>>
    \o <<Id("f"), EQ, LAMDA, Id("x"), DOT, Id("y")>>
    \o <<Id("a"), EQ, LAMDA, Id("x"), DOT, LAMDA, Id("y"), DOT, Id("x"), Star, Id("y")>>
    \o <<Id("h"), EQ, LAMDA, Id("z"), DOT, REC, LP, Lit(0), RP>>
    \o <<Id("i"), EQ, LAMDA, Id("x"), DOT, Id("x")>>

Lam(param) == <<LAMDA, Id(param), DOT>>
App(f, a) == <<LP>> \o f \o <<RP>> \o a

BuiltinNames == {"ascii", "input", "time", "print", "sleep"}

\* terms for the function position
FuncTerms ==
    {<<Id("c")>>, <<Id("f")>>, <<Id("a")>>, <<Id("h")>>, <<Id("i")>>, <<Lit(1)>>,
     <<Id("u")>>,
     Lam("x") \o <<Lit(5)>>,
     Lam("x") \o <<Id("x"), Plus, Id("k")>>,
     Lam("y") \o App(<<Id("f")>>, <<Lit(1)>>),
     Lam("y") \o App(<<Id("i")>>, <<Id("y")>>),
     Lam("x") \o App(<<Id("h")>>, <<Lit(1)>>),
     Lam("x") \o <<Lit(1), Plus>> \o App(<<Id("h")>>, <<Lit(1)>>),
     Lam("x") \o Lam("y") \o <<Id("x")>>,
     Lam("c") \o <<REC, LP, Id("c"), Minus, Lit(1), RP>>,
     Lam("n") \o <<REC, LP, Lit(1), RP>>,
     Lam("n") \o <<REC, LP>> \o Lam("x") \o <<Id("x"), RP>>,
     Lam("print") \o <<REC, LP, Id("print"), Minus, Lit(1), RP>>,
     Lam("print") \o App(<<Id("h")>>, <<Lit(1)>>),
     Lam("print") \o Lam("x") \o <<Id("x")>>,
     App(<<Id("h")>>, <<Lit(1)>>),
     App(<<Id("a")>>, <<Lit(2)>>)}
    \cup {Lam(b) \o <<Id(b)>> : b \in BuiltinNames \cup {"echo"}}

\* terms for the argument position
ArgTerms ==
    {<<Lit(0)>>, <<Lit(1)>>, <<Lit(5)>>, <<Lit(10)>>, <<Lit(300)>>, <<Id("y")>>, <<Id("k")>>,
     <<Lit(1), Op("Slash"), Lit(2)>>,
     App(<<Id("h")>>, <<Lit(1)>>),
     <<Lit(1), Plus>> \o App(<<Id("h")>>, <<Lit(1)>>),
     App(<<Id("c")>>, <<Lit(2)>>),
     App(Lam("print") \o <<Id("print")>>, <<Lit(7)>>),
     Lam("z") \o <<Id("z")>>}

\* one application, statement or binding, after the prelude
ApplyInputs ==
    {Prelude \o App(f, a) : f \in FuncTerms, a \in ArgTerms}

\* the counter applied to N, and a curried application
CounterInputs ==
    {Prelude \o App(<<Id("c")>>, <<Lit(n)>>) : n \in 0..MaxN}

\* a closure made by a call, later bindings, then its application
RebindTerms ==
    {<<Id("k"), EQ, Lit(2)>>, <<Id("a"), EQ, Lit(1)>>, <<Id("x"), EQ, Lit(7)>>,
     <<Id("g"), EQ, Id("i")>>,
     <<Id("m"), EQ>> \o App(<<Id("g")>>, <<Lit(3)>>)}
RebindInputs ==
    {Prelude \o <<Id("g"), EQ>> \o App(f, <<Lit(2)>>) \o r \o App(<<Id("g")>>, <<Lit(10)>>) :
        f \in {<<Id("a")>>, <<Id("i")>>, Lam("x") \o Lam("y") \o <<Id("x"), Plus, Id("k")>>},
        r \in RebindTerms}
    \cup {Prelude \o <<Id("g"), EQ>> \o Lam("x") \o <<Id("x"), Plus, Id("k")>> \o r
            \o App(<<Id("g")>>, <<Lit(0)>>) : r \in RebindTerms}
    \cup {<<Id("k"), EQ, Lit(1)>> \o <<Id("f"), EQ>> \o Lam("x") \o <<Id("x"), Plus, Id("k")>>
            \o <<Id("k"), EQ, Lit(2)>> \o App(<<Id("f")>>, <<Lit(0)>>)}

\* programs of the specification's examples
ExampleInputs ==
    {<<Id("x")>>,
     <<Lit(6), Op("BitAnd"), Lit(3)>>, <<Lit(6), Op("BitOr"), Lit(1)>>,
     <<Cmt("note"), Lit(1)>>,
     App(App(<<Id("f")>>, <<Id("a")>>), <<Id("b")>>),
     App(<<Id("f")>>, <<Id("a"), Id("b")>>),
     <<LP, Lit(2), Plus, Lit(3), RP>>,
     Prelude \o App(<<Id("a")>>, <<Lit(2), Lit(10)>>),
     Prelude \o App(App(<<Id("a")>>, <<Lit(2)>>), <<Lit(10)>>),
     Prelude \o App(Lam("y") \o App(<<Id("f")>>, <<Lit(1)>>), <<Lit(5)>>)}

\* a statement that fails, between the bindings of the prelude and two
\* more statements: a binding and a print
FailingTerms ==
    {<<Id("q")>>, <<Id("k"), EQ, Id("q")>>, App(<<Lit(1)>>, <<Id("y")>>),
     <<Id("k"), Plus, Id("i")>>, App(Lam("ascii") \o <<Id("ascii")>>, <<Lit(300)>>),
     App(Lam("print") \o <<Id("print"), Plus, Id("q")>>, <<Lit(3)>>),
     App(Lam("print") \o <<Id("print")>>, <<Lit(4)>>) \o <<Plus, Id("q")>>,
     <<Id("k")>>}
FailingInputs ==
    {Prelude \o s \o <<Id("z"), EQ, Lit(2)>> \o App(Lam("print") \o <<Id("print")>>, <<Lit(5)>>) :
        s \in FailingTerms}

\* a function that recurs, applied through each form of function expression:
\* inline, a global identifier, an identifier its own parameter shadows, an
\* identifier bound in the caller's frame only
Countdown(param) == Lam(param) \o <<REC, LP, Id(param), Minus, Lit(1), RP>>
\* the same with a print in the marker's expression: \n.F((\print.print) n-1)
PrintingCountdown(param) ==
    Lam(param) \o <<REC, LP>>
        \o App(Lam("print") \o <<Id("print")>>, <<Id(param), Minus, Lit(1)>>) \o <<RP>>
RecursionInputs ==
    {Prelude \o App(PrintingCountdown("n"), <<Lit(2)>>),
     Prelude \o <<Id("p"), EQ>> \o PrintingCountdown("n") \o App(<<Id("p")>>, <<Lit(2)>>),
     Prelude \o App(Lam("g") \o App(<<Id("g")>>, <<Lit(2)>>), PrintingCountdown("n"))}
    \cup
    {Prelude \o App(Countdown("n"), <<Lit(3)>>),
     Prelude \o App(<<Id("c")>>, <<Lit(3)>>),
     Prelude \o <<Id("s"), EQ>> \o Countdown("s") \o App(<<Id("s")>>, <<Lit(3)>>),
     Prelude \o App(Lam("g") \o App(<<Id("g")>>, <<Lit(3)>>), Countdown("n")),
     Prelude \o App(Lam("g") \o App(<<Id("g")>>, <<Lit(3)>>), <<Id("c")>>),
     Prelude \o App(Lam("c") \o App(<<Id("c")>>, <<Lit(3)>>), Countdown("n")),
     Prelude \o App(Lam("x") \o <<Id("x")>>, <<Lit(0)>>),
     Prelude \o App(<<Id("i")>>, <<REC, LP, Lit(1), RP>>),
     Prelude \o App(Lam("print") \o <<REC, LP>> \o App(<<Id("h")>>, <<Lit(1)>>) \o <<RP>>, <<Lit(5)>>),
     Prelude \o App(Lam("time") \o <<REC, LP>> \o App(<<Id("h")>>, <<Lit(1)>>) \o <<RP>>, <<Lit(5)>>),
     Prelude \o App(Lam("time") \o App(<<Id("h")>>, <<Lit(1)>>), <<Lit(5)>>),
     Prelude \o App(Lam("input") \o App(<<Id("h")>>, <<Lit(1)>>), <<Lit(0)>>),
     Prelude \o App(Lam("x") \o <<Lit(5)>>, <<REC, LP, Id("k"), RP>>),
     Prelude \o <<Id("m"), EQ, REC, LP, Lit(2), Plus, Lit(3), RP>> \o <<Id("w"), EQ, Id("m")>>,
     Prelude \o <<Id("m"), EQ>> \o App(<<Id("c")>>, <<Lit(2)>>)
             \o App(<<Id("i")>>, App(<<Id("c")>>, <<Lit(1)>>))}

\* a op1 (f) b op2 c, and two applications around an operator
ApplicationOperandInputs ==
    {<<a, Op(o1)>> \o App(<<Id("f")>>, <<b, Op(o2), c>>) :
        a \in {Id("x"), Lit(2)}, b \in {Id("x"), Lit(3)}, c \in {Id("x"), Lit(4)},
        o1 \in BinaryOperators, o2 \in BinaryOperators}
    \cup {App(<<Id("f")>>, <<Lit(2), Op(o)>>) \o App(<<Id("g")>>, <<Lit(3)>>) :
            o \in BinaryOperators}

\* the families of token vectors (each is completed with Eof)
InputFamilies ==
    <<InfixInputs, ShortInputs, ParenInputs, ApplyInputs, CounterInputs, RebindInputs,
      ExampleInputs, FailingInputs, RecursionInputs, ApplicationOperandInputs>>

\* what the terminal and the clock deliver; only programs naming input or
\* time read them
UsesKbd(toks) == \E j \in 1..Len(toks) : toks[j] \in {Id("input"), Id("time")}
KbdInputs(toks) ==
    IF UsesKbd(toks) THEN {<<>>, <<Num(65)>>, <<Num(300)>>, <<NaN>>} ELSE {<<>>}

-----------------------------------------------------------------------------
(* The driver (main.rs): parse_program, Interpreter::new, evaluate_program. *)

Init ==
    /\ source = <<>>
    /\ \E i \in 1..Len(InputFamilies) : \E t \in InputFamilies[i] : tokens = t \o <<EOF>>
    /\ kbd \in KbdInputs(tokens)
    /\ pc = "parse"
    /\ program = <<>>
    /\ perr = None
    /\ idx = 0
    /\ frames = <<>>
    /\ results = <<>>
    /\ out = <<>>
    /\ log = <<>>

\* main: Parser::parse_program(tokens), then Interpreter::new()
Parse ==
    /\ pc = "parse"
    /\ LET r == parse_program(tokens) IN
       /\ pc' = CASE r.kind = "Ok" -> "eval"
                  [] r.kind = "Err" -> "failed"
                  [] r.kind = "Panic" -> "aborted"
       /\ program' = IF r.kind = "Ok" THEN r.val ELSE <<>>
       /\ perr' = IF r.kind = "Ok" THEN None ELSE r
       /\ frames' = IF r.kind = "Ok" THEN <<Scope_global>> ELSE <<>>
    /\ UNCHANGED <<source, tokens, kbd, idx, results, out, log>>

\* a variant of the turn that goes on to the next statement after a failure
evaluate_program_turn_resume(r, results_, idx_) ==
    [pc |-> CASE r.kind \in {"Ok", "Err"} -> "eval"
              [] r.kind = "Cut" -> "cut"
              [] r.kind = "Blocked" -> "blocked",
     results |-> IF r.kind = "Ok" THEN Append(results_, r.val) ELSE results_,
     idx |-> IF r.kind \in {"Ok", "Err"} THEN idx_ + 1 ELSE idx_]

\* evaluate_program: `self.evaluate_statement(statement)?` then results.push;
\* an Err leaves the function and drops the results vector
evaluate_program_turn(r, results_, idx_) ==
    [pc |-> CASE r.kind = "Ok" -> "eval"
              [] r.kind = "Err" -> "failed"
              [] r.kind = "Cut" -> "cut"
              [] r.kind = "Blocked" -> "blocked",
     results |-> IF r.kind = "Ok" THEN Append(results_, r.val) ELSE <<>>,
     idx |-> IF r.kind = "Ok" THEN idx_ + 1 ELSE idx_]

\* evaluate_program: one turn of `for statement in &program.statements`
EvaluateStatement ==
    /\ pc = "eval"
    /\ idx < Len(program)
    /\ LET r == evaluate_statement(program[idx + 1],
                    [frames |-> frames, out |-> out, kbd |-> kbd, log |-> <<>>,
                     cur |-> 0, fuel |-> Fuel])
       IN
       /\ frames' = r.st.frames
       /\ out' = r.st.out
       /\ kbd' = r.st.kbd
       /\ log' = r.st.log
       /\ pc' = evaluate_program_turn(r, results, idx).pc
       /\ results' = evaluate_program_turn(r, results, idx).results
       /\ idx' = evaluate_program_turn(r, results, idx).idx
       /\ perr' = IF r.kind = "Err" THEN [kind |-> "Err", msg |-> r.msg] ELSE perr
    /\ UNCHANGED <<source, tokens, program>>

\* evaluate_program returns Ok(results); main returns ExitCode::SUCCESS
Finish ==
    /\ pc = "eval"
    /\ idx = Len(program)
    /\ pc' = "done"
    /\ UNCHANGED <<source, tokens, kbd, program, perr, idx, frames, results, out, log>>

Next == Parse \/ EvaluateStatement \/ Finish

Spec == Init /\ [][Next]_vars

-----------------------------------------------------------------------------
(* The driver from the source text on: Lexer::get_tokens, then the above.   *)

MaxDigits == 3

\* number texts: an integer part, then an optional fraction and exponent
IntegerParts == {<<"1">> \o t : t \in UNION {[1..n -> {"0", "_"}] : n \in 0..(MaxDigits - 1)}}
FractionParts == {<<>>, <<".">>, <<".", "5">>, <<".", "_", "5">>, <<".", "2", "_", "5">>}
ExponentParts ==
    {<<>>, <<"e">>, <<"e", "2">>, <<"E", "+", "2">>, <<"e", "-", "1">>, <<"e", "1", "_", "0">>,
     <<"e", "+">>, <<"_">>, <<"x">>, <<" ", "+", " ", "1">>}
NumberSources == {i \o f \o x : i \in IntegerParts, f \in FractionParts, x \in ExponentParts}

\* program texts
ProgramSources ==
    {<<"1", "_", "0", "0", "0", ".", "5", "e", "+", "2">>,
     <<"1", "0", "0", "0", ".", "5", "e", "+", "2">>,
     <<"x", " ", "=", " ", "1", "_", "0", "\n", "x", "*", "2">>,
     <<"x", " ", "=", " ", "1", "0", "\n", "x", "*", "2">>,
     <<"/", "/", " ", "n", "o", "t", "e", "\r", "\n", "6", "&", "3", "|", "1">>,
     <<"(", LamdaCh, "x", "_", "1", ".", "x", "_", "1", "-", "1", ")", " ", "3">>,
     <<"f", "=", LamdaCh, "n", ".", RecursionCh, "(", "n", "-", "1", ")", "\n", "(", "f", ")", "2">>,
     <<"8", "/", "2", "\t", "/", "/">>,
     <<"2", " ", "#", " ", "3">>,
     <<>>}

LexInit ==
    /\ source \in NumberSources \cup ProgramSources
    /\ tokens = <<>>
    /\ kbd = <<>>
    /\ pc = "lex"
    /\ program = <<>>
    /\ perr = None
    /\ idx = 0
    /\ frames = <<>>
    /\ results = <<>>
    /\ out = <<>>
    /\ log = <<>>

\* main: Lexer::new(path).get_tokens()
GetTokens ==
    /\ pc = "lex"
    /\ LET r == get_tokens(source) IN
       /\ pc' = IF r.kind = "Ok" THEN "parse" ELSE "aborted"
       /\ tokens' = IF r.kind = "Ok" THEN r.val ELSE <<>>
       /\ perr' = IF r.kind = "Ok" THEN None ELSE r
    /\ UNCHANGED <<source, kbd, program, idx, frames, results, out, log>>

LexNext == GetTokens \/ Parse \/ EvaluateStatement \/ Finish

LexSpec == LexInit /\ [][LexNext]_vars

-----------------------------------------------------------------------------
(* Properties.                                                              *)

\* the parse has failed: no Program was produced
ParseFailed == pc \in {"failed", "aborted"} /\ program = <<>>
\* the parse has produced a Program
Parsed == pc # "parse" /\ ~ParseFailed

\* the level of a binary operator, as the specification orders them
LevelOf(o) ==
    CASE o \in {"Plus", "Minus"} -> 1
      [] o \in {"Asterisk", "Slash"} -> 2
      [] o \in {"BitAnd", "BitOr"} -> 3
BinaryOpOf(o) ==
    CASE o = "Plus" -> "Add"
      [] o = "Minus" -> "Sub"
      [] o = "Asterisk" -> "Mul"
      [] o = "Slash" -> "Div"
      [] o = "BitAnd" -> "BitAnd"
      [] o = "BitOr" -> "BitOr"
OperandOf(t) == IF t.kind = "Identifier" THEN Identifier(t.name) ELSE Literal(t.value)
IsOperand(t) == t.kind \in {"Identifier", "Literal"}
IsBinop(t) == t.kind = "Operator" /\ t.op \in BinaryOperators

\* the token vector is  a op1 b op2 c Eof
IsInfixInput ==
    /\ Len(tokens) = 6
    /\ IsOperand(tokens[1]) /\ IsBinop(tokens[2]) /\ IsOperand(tokens[3])
    /\ IsBinop(tokens[4]) /\ IsOperand(tokens[5])
LeftNested ==
    BinaryOperation(BinaryOpOf(tokens[4].op),
        BinaryOperation(BinaryOpOf(tokens[2].op), OperandOf(tokens[1]), OperandOf(tokens[3])),
        OperandOf(tokens[5]))
RightNested ==
    BinaryOperation(BinaryOpOf(tokens[2].op), OperandOf(tokens[1]),
        BinaryOperation(BinaryOpOf(tokens[4].op), OperandOf(tokens[3]), OperandOf(tokens[5])))
TenMinusThreeMinusTwo == <<Lit(10), Minus, Lit(3), Minus, Lit(2), EOF>>

\* C1: a op1 b op2 c with op1 and op2 of the same precedence level parses as
\* (a op1 b) op2 c, and the program 10-3-2 evaluates to 5.
C1_LeftAssociative ==
    /\ (IsInfixInput /\ LevelOf(tokens[2].op) = LevelOf(tokens[4].op) /\ pc # "parse")
            => program = <<ExpressionStmt(LeftNested), EofStmt>>
    /\ tokens = TenMinusThreeMinusTwo =>
            /\ pc \in {"parse", "eval", "done"}
            /\ Len(results) >= 1 => results[1] = VLiteral(Num(5))

C1_Witness ==
    /\ tokens = TenMinusThreeMinusTwo
    /\ pc = "done"
    /\ program[1] = ExpressionStmt(LeftNested)
    /\ results = <<VLiteral(Num(5)), Unit>>

TwoPlusThreeTimesFour == <<Lit(2), Plus, Lit(3), Star, Lit(4), EOF>>
TwoTimesThreePlusFour == <<Lit(2), Star, Lit(3), Plus, Lit(4), EOF>>

\* C2: in a op1 b op2 c the operator of the higher level (Sum < Product <
\* Bitwise) binds tighter: b goes to op2 when op2 is higher and to op1 when
\* op1 is higher; 2+3*4 evaluates to 14 and 2*3+4 to 10.
C2_Precedence ==
    /\ (IsInfixInput /\ LevelOf(tokens[2].op) < LevelOf(tokens[4].op) /\ pc # "parse")
            => program = <<ExpressionStmt(RightNested), EofStmt>>
    /\ (IsInfixInput /\ LevelOf(tokens[2].op) > LevelOf(tokens[4].op) /\ pc # "parse")
            => program = <<ExpressionStmt(LeftNested), EofStmt>>
    /\ tokens \in {TwoPlusThreeTimesFour, TwoTimesThreePlusFour} =>
            /\ pc \in {"parse", "eval", "done"}
            /\ Len(results) >= 1 =>
                    results[1] = IF tokens = TwoPlusThreeTimesFour
                                 THEN VLiteral(Num(14)) ELSE VLiteral(Num(10))

C2_Witness ==
    /\ tokens = TwoPlusThreeTimesFour
    /\ pc = "done"
    /\ program[1] = ExpressionStmt(RightNested)
    /\ results = <<VLiteral(Num(14)), Unit>>

\* the applications of the statement evaluated last, and those that made a
\* frame (a closure was called and its body evaluated)
Applies == {i \in DOMAIN log : log[i].ev = "apply"}
Calls == {i \in Applies : log[i].new_env # 0}
\* the statement evaluated last came to an end in the interpreter
Returned == pc \in {"eval", "done", "failed"}

\* (\y.(f) 1) 5  and  ((a) 2) 10  after the bindings of f and a
DynamicLookupInput ==
    Prelude \o App(Lam("y") \o App(<<Id("f")>>, <<Lit(1)>>), <<Lit(5)>>) \o <<EOF>>
CurriedInput ==
    Prelude \o App(App(<<Id("a")>>, <<Lit(2)>>), <<Lit(10)>>) \o <<EOF>>
PreludeLen == Len(parse_program(Prelude).val)

\* C3: applying a closure evaluates its body in a new frame whose parent is
\* the frame the closure captured at its creation, not the caller's frame:
\* after f = \x.y the statement (\y.(f) 1) 5 fails with an unbound-identifier
\* error for y, and after a = \x.\y.x*y the statement ((a) 2) 10 yields 20.
C3_LexicalScope ==
    /\ \A i \in Calls :
            /\ log[i].fun.tag = "Closer"
            /\ log[i].new_env \in DOMAIN frames
            /\ frames[log[i].new_env].parent = log[i].fun.env
            /\ log[i].fun.param \in DOMAIN frames[log[i].new_env].bindings
    /\ tokens = DynamicLookupInput =>
            /\ pc \in {"parse", "eval", "failed"}
            /\ idx <= PreludeLen
            /\ pc = "failed" =>
                    /\ perr.msg = "Unbound binding"
                    /\ log[Len(log)] =
                         [ev |-> "lookup", name |-> "y", env |-> Len(frames),
                          fr |-> frames, res |-> NoVal]
    /\ tokens = CurriedInput =>
            /\ pc \in {"parse", "eval", "done"}
            /\ Len(results) > PreludeLen => results[PreludeLen + 1] = VLiteral(Num(20))

\* y is looked up from the frame of f's call, made from the frame of \y's
\* call, where y is bound
C3_Witness ==
    /\ tokens = DynamicLookupInput
    /\ pc = "failed"
    /\ perr.msg = "Unbound binding"
    /\ \E i \in Calls :
            /\ log[i].env # 1
            /\ "y" \in DOMAIN frames[log[i].env].bindings
            /\ frames[log[i].new_env].parent = 1

\* C4: if any application evaluated for a statement yields Halt (in function
\* position, as the value of a closure body, in argument position or as an
\* operand of a binary operation), every application that encloses it yields
\* Halt and the statement's result is Halt, never an error or another value.
C4_HaltPropagates ==
    Returned =>
        \A i \in Applies :
            log[i].res = HALT =>
                /\ log[i].parent # 0 => log[log[i].parent].res = HALT
                /\ pc # "failed"
                /\ results[Len(results)] = HALT

\* (\x.5) ((h) 1): the argument yields Halt and the statement yields 5
HaltArgumentInput ==
    Prelude \o App(Lam("x") \o <<Lit(5)>>, App(<<Id("h")>>, <<Lit(1)>>)) \o <<EOF>>
C4_Witness ==
    /\ tokens = HaltArgumentInput
    /\ pc = "eval"
    /\ idx = PreludeLen + 1
    /\ \E i \in Applies : log[i].argv = HALT /\ log[i].res = VLiteral(Num(5))
    /\ results[PreludeLen + 1] = VLiteral(Num(5))

\* the counter applied to n
CounterInput(n) == Prelude \o App(<<Id("c")>>, <<Lit(n)>>) \o <<EOF>>
CounterN == CHOOSE n \in 0..MaxN : tokens = CounterInput(n)
\* the calls of the statement in the order they were made
CallSeq == SelectSeq([i \in DOMAIN log |-> IF i \in Calls THEN log[i] ELSE NoVal],
                     LAMBDA e : e # NoVal)

\* C5: after c = \n.F(n-1) the statement (c) N, for an integer literal
\* N >= 1, yields Halt after the body of c has been evaluated exactly N
\* times, with n bound to N, N-1, ..., 1 in that order.
C5_Counter ==
    (\E n \in 1..MaxN : tokens = CounterInput(n)) =>
        /\ pc \in {"parse", "eval", "done"}
        /\ Len(results) > PreludeLen =>
                results[PreludeLen + 1] = HALT
        /\ (idx = PreludeLen + 1 /\ pc = "eval") =>
                /\ Len(CallSeq) = CounterN
                /\ \A j \in 1..CounterN :
                        /\ CallSeq[j].fun = frames[1].bindings["c"]
                        /\ CallSeq[j].argv = VLiteral(Num(CounterN + 1 - j))
                        /\ frames[CallSeq[j].new_env].bindings["n"]
                                = VLiteral(Num(CounterN + 1 - j))
                        /\ CallSeq[j].body = VRecursion(CallSeq[j].fun.body.inner)

C5_Witness ==
    /\ tokens = CounterInput(MaxN)
    /\ idx = PreludeLen + 1
    /\ pc = "eval"
    /\ results[PreludeLen + 1] = HALT
    /\ Len(CallSeq) = MaxN
    /\ CallSeq[MaxN].argv = VLiteral(Num(1))

\* the applications of a closure whose body yielded a value that is neither
\* Halt nor a recursion marker
BodyValued == {i \in Applies : log[i].fun.tag = "Closer"
                                /\ log[i].body.tag \in {"Literal", "Closer"}}
ReservedNames == {"ascii", "input", "time", "print", "sleep"}
PrintInput == Prelude \o App(Lam("print") \o <<Id("print")>>, <<Lit(5)>>) \o <<EOF>>
EchoInput == Prelude \o App(Lam("echo") \o <<Id("echo")>>, <<Lit(5)>>) \o <<EOF>>
PrintFive == [cap |-> "print", args |-> <<Num(5)>>, ret |-> VLiteral(Num(5))]

\* C6 as stated: an application of a closure whose body yields a non-Halt
\* value (here a Literal or a Closure) invokes a capability exactly once if
\* the parameter is a reserved name and none otherwise; the capability
\* receives the body's value, if it takes one, and its return value is the
\* application's result.
C6_DispatchAnyValue ==
    \A i \in BodyValued :
        IF log[i].fun.param \in ReservedNames
        THEN /\ Len(log[i].cap) = 1
             /\ log[i].cap[1].args \in {<<>>, <<log[i].body.value>>}
             /\ log[i].res.tag \notin {"Cut", "Blocked"} => log[i].res = log[i].cap[1].ret
        ELSE /\ log[i].cap = <<>>
             /\ log[i].res = log[i].body

\* the body values a reserved name's arm takes, the capability it calls and
\* what it hands to it
Accepted(param, v) ==
    CASE param = "time" -> TRUE
      [] param = "ascii" -> v.tag = "Literal" /\ ~FGe(v.value, Num(255))
      [] param = "input" -> v \in {VLiteral(Num(0)), VLiteral(Num(1))}
      [] param \in {"print", "sleep"} -> v.tag = "Literal"
CapabilityFor(param, v) ==
    IF param = "input"
    THEN (IF v = VLiteral(Num(0)) THEN "input_char" ELSE "input_numeric")
    ELSE param
GivenTo(param, v) ==
    CASE param \in {"time", "input"} -> <<>>
      [] param = "ascii" -> <<Num(AsUnsigned(v.value))>>
      [] param \in {"print", "sleep"} -> <<v.value>>

\* C6, amended: when the body of the applied closure yields a Literal or a
\* Closure, a reserved parameter name invokes its capability exactly once
\* only if the name's arm takes the value (time: any value; print, sleep: a
\* Literal; ascii: a Literal below 255; input: the Literal 0 or 1), else the
\* application fails with no capability call; print and sleep receive the
\* value, ascii the value as a byte, time and input nothing; the
\* capability's return is the application's result.  Any other parameter
\* name invokes no capability and yields the body's value.
C6_Dispatch ==
    /\ \A i \in BodyValued :
            IF log[i].fun.param \notin ReservedNames
            THEN /\ log[i].cap = <<>>
                 /\ log[i].res = log[i].body
            ELSE IF Accepted(log[i].fun.param, log[i].body)
            THEN /\ Len(log[i].cap) = 1
                 /\ log[i].cap[1].cap = CapabilityFor(log[i].fun.param, log[i].body)
                 /\ log[i].cap[1].args = GivenTo(log[i].fun.param, log[i].body)
                 /\ log[i].res.tag \notin {"Cut", "Blocked"} => log[i].res = log[i].cap[1].ret
            ELSE /\ log[i].cap = <<>>
                 /\ log[i].res = ErrVal
    /\ tokens \in {PrintInput, EchoInput} =>
            /\ pc \in {"parse", "eval", "done"}
            /\ Len(results) > PreludeLen =>
                    /\ results[PreludeLen + 1] = VLiteral(Num(5))
                    /\ out = IF tokens = PrintInput THEN <<PrintFive>> ELSE <<>>

C6_Witness ==
    /\ tokens = PrintInput
    /\ pc = "eval"
    /\ idx = PreludeLen + 1
    /\ \E i \in BodyValued : log[i].cap = <<PrintFive>> /\ log[i].res = VLiteral(Num(5))
    /\ out = <<PrintFive>>

\* the closure values held by the results and by the frames
HeldValues ==
    {results[i] : i \in DOMAIN results}
    \cup UNION {{frames[j].bindings[n] : n \in DOMAIN frames[j].bindings} : j \in DOMAIN frames}
Closures == {v \in HeldValues : v.tag = "Closer"}
\* the step to come evaluates a Binding statement
BindingStep == pc = "eval" /\ idx < Len(program) /\ program[idx + 1].tag = "Binding"

\* C7 as stated: a Binding statement leaves the contents of the captured
\* frame of every closure created before it unchanged, be that frame a call
\* frame or the global frame.
C7_CapturedUnchanged ==
    [][BindingStep =>
          \A c \in Closures : frames'[c.env].bindings = frames[c.env].bindings]_vars

\* C7, amended: a Binding statement leaves the contents of the captured
\* frame of every closure created before it unchanged when that frame is a
\* call frame; the global frame, shared by the closures that captured it,
\* gets the Binding's name set to the Binding's value and keeps the rest.
C7_CallFrameUnchanged ==
    [][BindingStep =>
          /\ \A c \in Closures :
                c.env # 1 => frames'[c.env].bindings = frames[c.env].bindings
          /\ pc' = "eval" =>
                /\ DOMAIN frames'[1].bindings =
                        DOMAIN frames[1].bindings \cup {program[idx + 1].name}
                /\ frames'[1].bindings[program[idx + 1].name] = results'[idx + 1]
                /\ \A n \in DOMAIN frames[1].bindings \ {program[idx + 1].name} :
                        frames'[1].bindings[n] = frames[1].bindings[n]]_vars

\* g = (a) 2   a = 1   (g) 10 : g's captured frame binds x to 2
RebindInput ==
    Prelude \o <<Id("g"), EQ>> \o App(<<Id("a")>>, <<Lit(2)>>) \o <<Id("a"), EQ, Lit(1)>>
        \o App(<<Id("g")>>, <<Lit(10)>>) \o <<EOF>>
C7_Witness ==
    /\ tokens = RebindInput
    /\ idx = PreludeLen + 2
    /\ program[idx].tag = "Binding"
    /\ frames[1].bindings["a"] = VLiteral(Num(1))
    /\ frames[1].bindings["g"].env # 1
    /\ frames[frames[1].bindings["g"].env].bindings = ("x" :> VLiteral(Num(2)))

\* tokens i, i+1, i+2 are "(", an identifier or literal, a binary operator
ParenOperandBinop(i) ==
    /\ i + 2 <= Len(tokens)
    /\ tokens[i] = LP /\ IsOperand(tokens[i + 1]) /\ IsBinop(tokens[i + 2])
\* the "(" is not the one the recursion keyword takes
NotAfterRecursion(i) == i = 1 \/ tokens[i - 1] # REC
\* the prefixes that leave the parser at the start of an expression
PlainPrefixes == {p \in ParenPrefixes : p = <<>> \/ p[Len(p)] # REC}

\* C8 as stated: a token sequence in which "(" is followed by an identifier
\* or literal and then a binary operator never parses to a Program.
C8_ParenBinopNeverParses ==
    (pc # "parse" /\ \E i \in DOMAIN tokens : ParenOperandBinop(i)) => ParseFailed

\* C8, amended: a token sequence in which a "(" that does not follow the
\* recursion keyword is followed by an identifier or literal and then a
\* binary operator never parses to a Program; when the parser reaches that
\* "(" the parse ends in the syntax error that meets the operator where ")"
\* is expected.
C8_ParenBinop ==
    \A i \in DOMAIN tokens :
        (pc # "parse" /\ ParenOperandBinop(i) /\ NotAfterRecursion(i)) =>
            /\ ParseFailed
            /\ SubSeq(tokens, 1, i - 1) \in PlainPrefixes =>
                    /\ pc = "aborted"
                    /\ perr = throw_syntax_error(tokens[i + 2], RP)

C8_Witness ==
    /\ tokens = <<LP, Lit(2), Plus, Lit(3), RP, EOF>>
    /\ pc = "aborted"
    /\ program = <<>>
    /\ perr = throw_syntax_error(Plus, RP)

NestedApplyInput == App(App(<<Id("f")>>, <<Id("a")>>), <<Id("b")>>) \o <<EOF>>
FlatApplyInput == App(<<Id("f")>>, <<Id("a"), Id("b")>>) \o <<EOF>>
FlatCurriedInput == Prelude \o App(<<Id("a")>>, <<Lit(2), Lit(10)>>) \o <<EOF>>

\* C9: the tokens ( ( f ) a ) b parse to one ExpressionStmt holding
\* Application{func: Application{func: f, arg: a}, arg: b}; the tokens
\* ( f ) a b parse to two statements, ExpressionStmt(Application{func: f,
\* arg: a}) and ExpressionStmt(Identifier b) (each program ends with the
\* Eof statement); so (a) 2 10 applies a to 2 only.
C9_Currying ==
    /\ (tokens = NestedApplyInput /\ pc # "parse") =>
            program = <<ExpressionStmt(Application(
                            Application(Identifier("f"), Identifier("a")),
                            Identifier("b"))),
                        EofStmt>>
    /\ (tokens = FlatApplyInput /\ pc # "parse") =>
            program = <<ExpressionStmt(Application(Identifier("f"), Identifier("a"))),
                        ExpressionStmt(Identifier("b")),
                        EofStmt>>
    /\ tokens = FlatCurriedInput =>
            /\ pc \in {"parse", "eval", "done"}
            /\ Len(results) > PreludeLen => results[PreludeLen + 1].tag = "Closer"
            /\ Len(results) > PreludeLen + 1 => results[PreludeLen + 2] = VLiteral(Num(10))

C9_Witness ==
    /\ tokens = FlatApplyInput
    /\ pc # "parse"
    /\ Len(program) = 3
    /\ program[1] = ExpressionStmt(Application(Identifier("f"), Identifier("a")))
    /\ program[2] = ExpressionStmt(Identifier("b"))

\* the frames from env through its ancestors, nearest first
RECURSIVE FrameChain(_, _)
FrameChain(fr, env) ==
    IF env = 0 THEN <<>> ELSE <<env>> \o FrameChain(fr, fr[env].parent)
\* the places of FrameChain(fr, env) whose frame binds name
Binders(fr, env, name) ==
    {j \in DOMAIN FrameChain(fr, env) : name \in DOMAIN fr[FrameChain(fr, env)[j]].bindings}
Nearest(fr, env, name) ==
    IF Binders(fr, env, name) = {} THEN NoVal
    ELSE fr[FrameChain(fr, env)[CHOOSE j \in Binders(fr, env, name) :
                \A k \in Binders(fr, env, name) : j <= k]].bindings[name]
Lookups == {i \in DOMAIN log : log[i].ev = "lookup"}
UnboundFailure == pc = "failed" /\ program # <<>> /\ perr.msg = "Unbound binding"

\* C10: evaluating Identifier(name) returns the value bound to name in the
\* nearest frame on the chain from the current frame through its ancestors
\* to the global frame, and fails with the unbound-binding error exactly
\* when no frame of the chain binds name; bare x with no binding fails.
C10_Lookup ==
    /\ \A i \in Lookups :
            /\ log[i].res = Nearest(log[i].fr, log[i].env, log[i].name)
            /\ FrameChain(log[i].fr, log[i].env)[Len(FrameChain(log[i].fr, log[i].env))] = 1
    /\ UnboundFailure <=> \E i \in Lookups : Binders(log[i].fr, log[i].env, log[i].name) = {}
    /\ tokens = <<Id("x"), EOF>> =>
            /\ pc \in {"parse", "eval", "failed"}
            /\ idx = 0
            /\ pc = "failed" => UnboundFailure

\* a name bound in the frame of the call and in the global frame
C10_Witness ==
    \E i \in Lookups :
        /\ log[i].env # 1
        /\ log[i].name \in DOMAIN log[i].fr[log[i].env].bindings
        /\ log[i].name \in DOMAIN log[i].fr[1].bindings
        /\ log[i].fr[1].bindings[log[i].name] # log[i].fr[log[i].env].bindings[log[i].name]
        /\ log[i].res = log[i].fr[log[i].env].bindings[log[i].name]


-----------------------------------------------------------------------------
(* C11: numeric literals with underscore separators.                        *)

\* the source is one numeric literal of the token-stream grammar
\*   digit+ ('_' digit)* ['.' digit+ ('_' digit)*] [('e'|'E') ['+'|'-'] digit+ ('_' digit)*]
\* and has at least one underscore
DigitGroup(t) ==
    /\ t # <<>>
    /\ \A i \in 1..Len(t) : t[i] \in AsciiDigits \cup {"_"}
    /\ t[1] # "_" /\ t[Len(t)] # "_"
    /\ \A i \in 1..(Len(t) - 1) : ~(t[i] = "_" /\ t[i + 1] = "_")
ExponentIndex(t) == IF IndexOf(t, "e") # 0 THEN IndexOf(t, "e") ELSE IndexOf(t, "E")
MantissaOf(t) == IF ExponentIndex(t) = 0 THEN t ELSE SubSeq(t, 1, ExponentIndex(t) - 1)
ExponentOf(t) ==
    LET x == SubSeq(t, ExponentIndex(t) + 1, Len(t)) IN
    IF x # <<>> /\ x[1] \in {"+", "-"} THEN Tail(x) ELSE x
SeparatedLiteral(t) ==
    /\ \E i \in 1..Len(t) : t[i] = "_"
    /\ LET m == MantissaOf(t)
           d == IndexOf(m, ".")
       IN  IF d = 0 THEN DigitGroup(m)
           ELSE DigitGroup(SubSeq(m, 1, d - 1)) /\ DigitGroup(SubSeq(m, d + 1, Len(m)))
    /\ ExponentIndex(t) # 0 => DigitGroup(ExponentOf(t))

\* the text as str::parse::<f64> is meant to see it: 'e' written 'E', no underscores
Normalized(t) == [i \in 1..Len(t) |-> IF t[i] = "e" THEN "E" ELSE t[i]]
LiteralToken(v) == [kind |-> "Literal", value |-> v]

\* C11: a numeric literal written with underscore separators is scanned with
\* success, and its token is the literal of the number the text denotes once
\* the underscores are removed (1_000.5e+2 becomes the literal 100050).
C11_UnderscoresStripped ==
    (SeparatedLiteral(source) /\ pc # "lex")
        => /\ pc # "aborted"
           /\ tokens = <<LiteralToken(decimal_value(Normalized(source)).val), EOF>>

\* 1_000.5e+2 has been scanned: the process panicked in the number arm
C11_Witness ==
    /\ source = <<"1", "_", "0", "0", "0", ".", "5", "e", "+", "2">>
    /\ SeparatedLiteral(source)
    /\ decimal_value(Normalized(source)).val = Num(100050)
    /\ pc = "aborted"
    /\ perr = throw_lexer_syntax_error("Standard Number", "Malformed Number")
    /\ tokens = <<>>

\* the same literal written without separators is scanned to 100050
C11_PlainLiteral ==
    (source = <<"1", "0", "0", "0", ".", "5", "e", "+", "2">> /\ pc # "lex")
        => tokens = <<Lit(100050), EOF>>

-----------------------------------------------------------------------------
(* C12: what parse_program does with a malformed token sequence.            *)

\* token vectors with a missing ")" after a parenthesized term
MissingRightParen ==
    {<<LP, a>> \o r \o <<EOF>> : a \in {Id("x"), Lit(1)}, r \in {<<>>, <<Id("x")>>, <<DOT>>}}
\* ... with a missing ")" after a recursion form
MissingRecursionParen ==
    {<<LAMDA, Id("x"), DOT, REC, LP, a, Op(o)>> \o r \o <<EOF>> :
        a \in {Id("x"), Lit(2)}, o \in {"Plus", "Asterisk", "BitOr"},
        r \in {<<Lit(1)>>, <<Id("x")>>}}
\* ... with a missing "." after an abstraction parameter
MissingDot ==
    {<<LAMDA, Id("x")>> \o r \o <<EOF>> : r \in {<<>>, <<Id("x")>>, <<Lit(1)>>, <<LP>>}}
\* ... with a missing parameter after the abstraction keyword
MissingParameter ==
    {<<LAMDA>> \o r \o <<EOF>> : r \in {<<>>, <<DOT>>, <<Lit(1)>>, <<DOT, Id("x")>>}}

\* C12: on every malformed token sequence (a missing ")" after a
\* parenthesized term or a recursion form, a missing "." after an abstraction
\* parameter, a missing parameter after the abstraction keyword, ...)
\* parse_program returns a failure value to main; the process does not abort.
C12_SyntaxErrorReturned ==
    ParseFailed => pc = "failed" /\ perr.kind = "Err"

\* the four named sequences have been given to parse_program, and each time
\* the process has panicked in throw_syntax_error!
C12_NamedSequencesAbort ==
    (tokens \in MissingRightParen \cup MissingRecursionParen \cup MissingDot \cup MissingParameter
     /\ pc # "parse")
        => pc = "aborted" /\ perr.kind = "Panic" /\ program = <<>>

\* "( x" has been parsed: consume_expect found the end marker, not ")"
C12_Witness ==
    /\ tokens = <<LP, Id("x"), EOF>>
    /\ tokens \in MissingRightParen
    /\ pc = "aborted"
    /\ perr = throw_syntax_error(EOF, RP)
    /\ program = <<>>

\* a malformed sequence that parse_program does answer with a failure value
C12_ReturnedWitness ==
    /\ tokens = <<Id("x"), Plus, EOF>>
    /\ pc = "failed"
    /\ perr.kind = "Err"
    /\ program = <<>>

-----------------------------------------------------------------------------
(* C13: the first statement that fails ends evaluate_program.               *)

\* evaluate_statement has returned Err for statement idx + 1
EvaluationFailed == program # <<>> /\ perr.kind = "Err"

\* every binding of the global frame is in the next state's global frame
GlobalBindingsKept ==
    \A n \in DOMAIN frames[1].bindings :
        /\ n \in DOMAIN frames'[1].bindings
        /\ frames'[1].bindings[n] = frames[1].bindings[n]

FailingInput ==
    Prelude \o <<Id("q")>> \o <<Id("z"), EQ, Lit(2)>>
        \o App(Lam("print") \o <<Id("print")>>, <<Lit(5)>>) \o <<EOF>>

\* C13: when statement k fails, evaluate_program returns the failure and no
\* results vector; the step that fails leaves every binding of the global
\* frame in place and counts no statement; no step follows it, so no later
\* statement binds a name or calls a builtin.
C13_FirstFailureEnds ==
    /\ [](EvaluationFailed => pc = "failed" /\ results = <<>> /\ idx < Len(program))
    /\ [][(EvaluationFailed' /\ ~EvaluationFailed) => idx' = idx /\ GlobalBindingsKept]_vars
    /\ [][~EvaluationFailed]_vars

\* the statement after the prelude has failed; the prelude's bindings are in
\* the global frame, the later binding of z and the later print are not made
C13_Witness ==
    /\ tokens = FailingInput
    /\ EvaluationFailed
    /\ pc = "failed"
    /\ idx = PreludeLen
    /\ idx + 2 < Len(program)
    /\ program[idx + 2].tag = "Binding"
    /\ {"k", "c", "f", "a", "h", "i"} \subseteq DOMAIN frames[1].bindings
    /\ "z" \notin DOMAIN frames[1].bindings
    /\ out = <<>>
    /\ results = <<>>

-----------------------------------------------------------------------------
(* C14: which closure the tail-loop re-application invokes.                 *)

\* the applications whose body yielded a recursion marker and that made the
\* tail-loop re-application
Recurring == {i \in Applies : log[i].tail # 0}

InlineInput == Prelude \o App(Countdown("n"), <<Lit(3)>>) \o <<EOF>>
ShadowedInput ==
    Prelude \o <<Id("s"), EQ>> \o Countdown("s") \o App(<<Id("s")>>, <<Lit(3)>>) \o <<EOF>>
CallerFrameInput ==
    Prelude \o App(Lam("g") \o App(<<Id("g")>>, <<Lit(3)>>), Countdown("n")) \o <<EOF>>

\* C14: whenever the body of an applied closure yields a recursion marker,
\* the tail-loop re-application invokes that same closure again (same
\* parameter, body and captured frame), however the function expression of
\* the application is written.
C14_SameClosureReinvoked ==
    \A i \in Recurring :
        /\ log[i].tail \in Applies
        /\ log[log[i].tail].fun = log[i].fun

\* (s) 3 after s = \s.F(s-1): the re-application found the literal 3 in the
\* function position and the statement yielded 3
C14_Witness ==
    /\ tokens = ShadowedInput
    /\ idx = PreludeLen + 2
    /\ pc = "eval"
    /\ Recurring = {1}
    /\ log[1].fun = frames[1].bindings["s"]
    /\ log[log[1].tail].func = Identifier("s")
    /\ log[log[1].tail].fun = VLiteral(Num(3))
    /\ results[idx] = VLiteral(Num(3))

\* (\g.(g) 3) \n.F(n-1): the re-application does not find g and the
\* statement fails
C14_CallerFrameUnbound ==
    /\ tokens = CallerFrameInput
    /\ pc = "failed"
    /\ perr.msg = "Unbound binding"
    /\ \E i \in Recurring :
            /\ log[i].func = Identifier("g")
            /\ log[i].fun.tag = "Closer"
            /\ log[log[i].tail].fun = NoVal

\* (\n.F(n-1)) 3: the re-application evaluates the abstraction again, in the
\* call's frame, and invokes a closure that captured that frame
C14_InlineCapturesCallFrame ==
    /\ tokens = InlineInput
    /\ idx = PreludeLen + 1
    /\ pc = "eval"
    /\ results[idx] = HALT
    /\ \A i \in Recurring :
            /\ log[log[i].tail].fun.param = log[i].fun.param
            /\ log[log[i].tail].fun.body = log[i].fun.body
            /\ log[log[i].tail].fun.env = log[i].new_env
            /\ log[i].fun.env # log[i].new_env
    /\ Recurring # {}

\* with a global identifier that nothing shadows the same closure is invoked
C14_GlobalIdentifier ==
    \A i \in Recurring :
        (/\ log[i].func.tag = "Identifier"
         /\ log[i].func.name \in DOMAIN frames[1].bindings
         /\ log[i].fun = frames[1].bindings[log[i].func.name]
         /\ log[i].fun.param # log[i].func.name
         /\ log[i].env = 1)
            => log[log[i].tail].fun = log[i].fun

-----------------------------------------------------------------------------
(* C15: recursion markers held by environment frames.                       *)

\* the names a frame binds to a recursion marker
MarkerNames(j) == {n \in DOMAIN frames[j].bindings : frames[j].bindings[n].tag = "Recursion"}

\* the expression has an application whose argument is a recursion form
RECURSIVE HasMarkerArgument(_)
HasMarkerArgument(e) ==
    CASE e.tag = "Application" ->
            e.arg.tag = "Recursion" \/ HasMarkerArgument(e.func) \/ HasMarkerArgument(e.arg)
      [] e.tag = "Abstraction" -> HasMarkerArgument(e.body)
      [] e.tag = "Recursion" -> HasMarkerArgument(e.inner)
      [] e.tag = "BinaryOperation" -> HasMarkerArgument(e.lhs) \/ HasMarkerArgument(e.rhs)
      [] OTHER -> FALSE

\* the statement gives a recursion form a name: as the value of a Binding
\* or as the argument of an application
NamesMarker(s) ==
    CASE s.tag = "Binding" -> s.value.tag = "Recursion" \/ HasMarkerArgument(s.value)
      [] s.tag = "ExpressionStmt" -> HasMarkerArgument(s.expr)
      [] OTHER -> FALSE

MarkerArgumentInput == Prelude \o App(<<Id("i")>>, <<REC, LP, Lit(1), RP>>) \o <<EOF>>

\* C15 as stated: in every reachable state no frame binds a name to a
\* recursion marker; neither a Binding statement nor the parameter binding
\* of an application stores one.
C15_NoMarkerStored ==
    \A j \in DOMAIN frames : MarkerNames(j) = {}

\* C15, amended: a frame binds a name to a recursion marker only in a
\* program where a recursion form is the value of a Binding statement or the
\* argument of an application; in every other program no frame ever does.
C15_MarkerStoredOnlyFromForm ==
    (\E j \in DOMAIN frames : MarkerNames(j) # {})
        => \E k \in 1..idx + 1 : k <= Len(program) /\ NamesMarker(program[k])

\* (i) F(1): the marker is bound to the parameter x of i in the call's frame
C15_Witness ==
    /\ tokens = MarkerArgumentInput
    /\ idx = PreludeLen + 1
    /\ pc = "eval"
    /\ NamesMarker(program[idx])
    /\ \E j \in DOMAIN frames :
            /\ j # 1
            /\ "x" \in MarkerNames(j)
            /\ frames[j].bindings["x"] = VRecursion(Literal(Num(1)))
    /\ MarkerNames(1) = {}

\* m = F(2+3): the Binding statement has stored the marker in the global frame
C15_BindingStoresMarker ==
    /\ frames # <<>>
    /\ "m" \in DOMAIN frames[1].bindings
    /\ frames[1].bindings["m"] = VRecursion(BinaryOperation("Add", Literal(Num(2)), Literal(Num(3))))

-----------------------------------------------------------------------------
(* C16: Halt on a literal-0 argument.                                       *)

Zero == VLiteral(Num(0))
\* the applications that returned Halt with a function value that is not
\* Halt and without making a frame: no body was evaluated
HaltedEarly == {i \in Applies : /\ log[i].res = HALT
                                /\ log[i].new_env = 0
                                /\ log[i].argv # NoVal
                                /\ log[i].fun.tag # "HALT"}
IdentityZeroInput == Prelude \o App(Lam("x") \o <<Id("x")>>, <<Lit(0)>>) \o <<EOF>>

\* C16: an application returns Halt on account of a literal-0 argument only
\* as a tail-loop re-application (recursion context), and then without
\* evaluating the closure body or invoking a builtin; an application made by
\* evaluate_expr (no recursion context) with the argument 0 applies the
\* function as usual, so (\x.x) 0 yields 0.
C16_HaltOnZero ==
    /\ \A i \in HaltedEarly : log[i].rc /\ log[i].argv = Zero
    /\ \A i \in Applies :
            (log[i].rc /\ log[i].argv = Zero)
                => /\ log[i].res = HALT
                   /\ log[i].new_env = 0
                   /\ log[i].body = NoVal
                   /\ log[i].cap = <<>>
                   /\ log[i].tail = 0
    /\ \A i \in Applies :
            (~log[i].rc /\ log[i].argv = Zero /\ log[i].fun.tag = "Closer")
                => /\ log[i].new_env \in DOMAIN frames
                   /\ frames[log[i].new_env].bindings[log[i].fun.param] = Zero
    /\ tokens = IdentityZeroInput =>
            /\ pc \in {"parse", "eval", "done"}
            /\ Len(results) > PreludeLen => results[PreludeLen + 1] = Zero

\* (c) 2 has counted down: the second re-application got 0 in recursion
\* context and returned Halt; its record has no frame, body or builtin call
C16_Witness ==
    /\ tokens = CounterInput(2)
    /\ idx = PreludeLen + 1
    /\ pc = "eval"
    /\ \E i \in HaltedEarly :
            /\ log[i].rc
            /\ log[i].argv = Zero
            /\ log[i].fun = frames[1].bindings["c"]
            /\ log[i].cap = <<>>
    /\ out = <<>>
    /\ results[idx] = HALT

\* (\x.x) 0 has been evaluated: the result is 0
C16_IdentityZero ==
    /\ tokens = IdentityZeroInput
    /\ idx = PreludeLen + 1
    /\ pc = "eval"
    /\ results[idx] = Zero
    /\ \E i \in Applies : ~log[i].rc /\ log[i].argv = Zero /\ log[i].body = Zero

-----------------------------------------------------------------------------
(* C17: the argument of a parenthesized application.                        *)

\* the token vector is  a op1 ( f ) b op2 c Eof
IsApplicationOperandInput ==
    /\ Len(tokens) = 9
    /\ IsOperand(tokens[1]) /\ IsBinop(tokens[2])
    /\ tokens[3] = LP /\ tokens[4] = Id("f") /\ tokens[5] = RP
    /\ IsOperand(tokens[6]) /\ IsBinop(tokens[7]) /\ IsOperand(tokens[8])
    /\ tokens[9] = EOF
\* the token vector is  ( f ) 2 op ( g ) 3 Eof
IsTwoApplicationsInput ==
    /\ Len(tokens) = 10
    /\ SubSeq(tokens, 1, 4) = App(<<Id("f")>>, <<Lit(2)>>)
    /\ IsBinop(tokens[5])
    /\ SubSeq(tokens, 6, 10) = App(<<Id("g")>>, <<Lit(3)>>) \o <<EOF>>
FTwoMinusGThree ==
    App(<<Id("f")>>, <<Lit(2), Minus>>) \o App(<<Id("g")>>, <<Lit(3)>>) \o <<EOF>>
TwoTimesFThreePlusFour ==
    <<Lit(2), Star>> \o App(<<Id("f")>>, <<Lit(3), Plus, Lit(4)>>) \o <<EOF>>

\* C17: the argument of a parenthesized application is parsed at Lowest
\* whatever the precedence the application is parsed at, so it takes every
\* binary operator that follows: a op1 (f) b op2 c is a op1 ((f) (b op2 c))
\* for all operators, (f) 2 - (g) 3 is f applied to 2 - ((g) 3), and
\* 2 * (f) 3 + 4 is 2 * ((f) (3 + 4)).
C17_ArgumentAtLowest ==
    /\ (IsApplicationOperandInput /\ pc # "parse") =>
            program = <<ExpressionStmt(
                            BinaryOperation(BinaryOpOf(tokens[2].op), OperandOf(tokens[1]),
                                Application(Identifier("f"),
                                    BinaryOperation(BinaryOpOf(tokens[7].op),
                                        OperandOf(tokens[6]), OperandOf(tokens[8]))))),
                        EofStmt>>
    /\ (IsTwoApplicationsInput /\ pc # "parse") =>
            program = <<ExpressionStmt(
                            Application(Identifier("f"),
                                BinaryOperation(BinaryOpOf(tokens[5].op), Literal(Num(2)),
                                    Application(Identifier("g"), Literal(Num(3)))))),
                        EofStmt>>
    /\ (tokens = FTwoMinusGThree /\ pc # "parse") =>
            program[1].expr.arg =
                BinaryOperation("Sub", Literal(Num(2)),
                                Application(Identifier("g"), Literal(Num(3))))
    /\ (tokens = TwoTimesFThreePlusFour /\ pc # "parse") =>
            program[1].expr =
                BinaryOperation("Mul", Literal(Num(2)),
                    Application(Identifier("f"),
                        BinaryOperation("Add", Literal(Num(3)), Literal(Num(4)))))

\* 2 * (f) 3 + 4 has been parsed: the product's right operand is the
\* application, and the application's argument is the sum
C17_Witness ==
    /\ tokens = TwoTimesFThreePlusFour
    /\ IsApplicationOperandInput
    /\ pc # "parse"
    /\ Len(program) = 2
    /\ program[1].expr.tag = "BinaryOperation"
    /\ program[1].expr.op = "Mul"
    /\ program[1].expr.rhs.tag = "Application"
    /\ program[1].expr.rhs.arg = BinaryOperation("Add", Literal(Num(3)), Literal(Num(4)))

\* (f) 2 - (g) 3 has been parsed
C17_TwoApplications ==
    /\ tokens = FTwoMinusGThree
    /\ IsTwoApplicationsInput
    /\ pc # "parse"
    /\ program[1].expr.func = Identifier("f")

-----------------------------------------------------------------------------
(* C18: an application evaluates both operands before it dispatches.        *)

LiteralUnboundInput == Prelude \o App(<<Lit(1)>>, <<Id("y")>>) \o <<EOF>>
HaltUnboundInput == Prelude \o App(App(<<Id("h")>>, <<Lit(1)>>), <<Id("y")>>) \o <<EOF>>
BothUnboundInput == Prelude \o App(<<Id("u")>>, <<Id("y")>>) \o <<EOF>>
LiteralAppliedInput == Prelude \o App(<<Lit(1)>>, <<Lit(5)>>) \o <<EOF>>
InnerOperandsInput ==
    Prelude \o App(Lam("y") \o App(<<Id("i")>>, <<Id("y")>>), <<Lit(5)>>) \o <<EOF>>
\* the application returned a value
Dispatched(i) == log[i].res.tag \notin {"NoVal", "Err", "Cut", "Blocked"}
\* the statement after the prelude failed on an unbound identifier
FailsUnbound ==
    /\ pc \in {"parse", "eval", "failed"}
    /\ idx <= PreludeLen
    /\ Len(results) <= PreludeLen
    /\ pc = "failed" => UnboundFailure

\* C18: every application evaluates its function expression and then its
\* argument expression, both in the current frame, before it dispatches on
\* the function value, also when that value is a Literal or Halt: a Literal
\* in function position is returned only if the argument evaluates without
\* error, and (1) y with y unbound fails with the unbound-binding error.
C18_OperandsFirst ==
    /\ \A i \in Applies :
            /\ Dispatched(i) => log[i].fun # NoVal /\ log[i].argv # NoVal
            /\ log[i].argv # NoVal => log[i].fun # NoVal
            /\ log[i].func.tag = "Identifier" =>
                    /\ i + 1 \in Lookups
                    /\ log[i + 1].name = log[i].func.name
                    /\ log[i + 1].env = log[i].env
            /\ (log[i].fun # NoVal /\ log[i].fun.tag = "Literal" /\ Dispatched(i)) =>
                    log[i].res = log[i].fun
    /\ tokens \in {LiteralUnboundInput, HaltUnboundInput, BothUnboundInput} => FailsUnbound
    /\ (tokens = LiteralUnboundInput /\ pc = "failed") =>
            /\ log[1].fun = VLiteral(Num(1))
            /\ log[2].ev = "lookup" /\ log[2].name = "y" /\ log[2].env = log[1].env
    /\ (tokens = BothUnboundInput /\ pc = "failed") =>
            \A l \in Lookups : log[l].name = "u"
    /\ (tokens = InnerOperandsInput /\ idx = PreludeLen + 1 /\ pc = "eval") =>
            /\ results[idx] = VLiteral(Num(5))
            /\ \E j \in Applies :
                    /\ log[j].env # 1
                    /\ log[j].env = log[1].new_env
                    /\ log[j + 1].ev = "lookup" /\ log[j + 1].name = "i"
                    /\ log[j + 2].ev = "lookup" /\ log[j + 2].name = "y"
                    /\ log[j + 2].env = log[j].env
                    /\ log[j + 2].res = VLiteral(Num(5))
    /\ (tokens = LiteralAppliedInput /\ Len(results) > PreludeLen) =>
            results[PreludeLen + 1] = VLiteral(Num(1))

\* (1) y has failed: the function value 1 was there, y was looked up in the
\* current frame and is not bound
C18_Witness ==
    /\ tokens = LiteralUnboundInput
    /\ pc = "failed"
    /\ UnboundFailure
    /\ idx = PreludeLen
    /\ log[1].fun = VLiteral(Num(1))
    /\ log[1].argv = NoVal
    /\ log[2].name = "y"
    /\ results = <<>>

\* ((h) 1) y has failed in the same way with Halt in function position
C18_HaltFunction ==
    /\ tokens = HaltUnboundInput
    /\ pc = "failed"
    /\ UnboundFailure
    /\ log[1].fun = HALT
    /\ log[1].argv = NoVal

-----------------------------------------------------------------------------
(* C19: Halt as the body value of a closure with a reserved parameter name. *)

\* the applications of a closure with a reserved parameter name whose body
\* yielded Halt, directly or as the value of a recursion marker's expression
ReservedHalted ==
    {i \in Applies : /\ log[i].fun # NoVal
                     /\ log[i].fun.tag = "Closer"
                     /\ log[i].fun.param \in ReservedNames
                     /\ \/ log[i].body = HALT
                        \/ log[i].body.tag = "Recursion" /\ log[i].inner = HALT}
PrintHaltInput ==
    Prelude \o App(Lam("print") \o App(<<Id("h")>>, <<Lit(1)>>), <<Lit(5)>>) \o <<EOF>>
PrintMarkerHaltInput ==
    Prelude \o App(Lam("print") \o <<REC, LP>> \o App(<<Id("h")>>, <<Lit(1)>>) \o <<RP>>,
                   <<Lit(5)>>) \o <<EOF>>

\* C19: when the body of a closure whose parameter is a reserved name
\* (ascii, input, time, print, sleep) yields Halt, directly or as the value
\* of the expression of a recursion marker, the application returns Halt and
\* calls no capability.
C19_HaltSkipsBuiltin ==
    /\ \A i \in ReservedHalted :
            /\ log[i].res = HALT
            /\ log[i].cap = <<>>
            /\ log[i].tail = 0
    /\ tokens \in {PrintHaltInput, PrintMarkerHaltInput} =>
            /\ out = <<>>
            /\ pc \in {"parse", "eval", "done"}
            /\ Len(results) > PreludeLen => results[PreludeLen + 1] = HALT

\* (\print.F((h) 1)) 5: the marker's expression yielded Halt, the
\* application returned Halt and print was not called
C19_Witness ==
    /\ tokens = PrintMarkerHaltInput
    /\ idx = PreludeLen + 1
    /\ pc = "eval"
    /\ 1 \in ReservedHalted
    /\ log[1].fun.param = "print"
    /\ log[1].body.tag = "Recursion"
    /\ log[1].inner = HALT
    /\ log[1].res = HALT
    /\ out = <<>>

\* (\print.(h) 1) 5: the body yielded Halt itself
C19_DirectHalt ==
    /\ tokens = PrintHaltInput
    /\ idx = PreludeLen + 1
    /\ pc = "eval"
    /\ 1 \in ReservedHalted
    /\ log[1].body = HALT
    /\ results[idx] = HALT
    /\ out = <<>>

-----------------------------------------------------------------------------
(* C20: parse_program comes to an end and consumes every token.             *)

\* the token vector ends with an end marker and has no other
EndsWithOneEof ==
    /\ tokens # <<>>
    /\ tokens[Len(tokens)] = EOF
    /\ \A j \in 1..(Len(tokens) - 1) : tokens[j] # EOF

\* every statement parse_program parses, one after the other from the
\* reversed vector toks, fails or leaves fewer tokens than it found
RECURSIVE Progress(_)
ProgressStep(toks, r) ==
    r.kind # "Ok" \/ (Len(r.toks) < Len(toks) /\ Progress(r.toks))
Progress(toks) == toks = <<>> \/ ProgressStep(toks, parse_statement(toks))

\* the tokens the statements of the Program were parsed from, in order:
\* parse_program has consumed all of them when nothing is left
Consumed(r) == r.kind = "Ok" /\ r.toks = <<>>

\* C20: for every token vector that ends with exactly one end marker,
\* parse_program terminates, each statement parse consuming at least one
\* token or failing; when it succeeds every token has been consumed and the
\* Program has exactly one Eof statement, its last.
C20_ParseConsumesAll ==
    EndsWithOneEof =>
        /\ Progress(Reverse(tokens))
        /\ Parsed =>
            /\ Consumed(parse_program(tokens))
            /\ program # <<>>
            /\ program[Len(program)] = EofStmt
            /\ \A k \in 1..(Len(program) - 1) : program[k] # EofStmt

\* ( f ) a b has been parsed into three statements, the last one Eof
C20_Witness ==
    /\ tokens = FlatApplyInput
    /\ EndsWithOneEof
    /\ Parsed
    /\ Len(program) = 3
    /\ program[3] = EofStmt
    /\ program[1] # EofStmt /\ program[2] # EofStmt

-----------------------------------------------------------------------------
(* C21: a closure reads the names of its captured frame when it is called.  *)

\* k = 1   f = \x.x+k   k = 2   (f) 0
SharedFrameInput ==
    <<Id("k"), EQ, Lit(1)>> \o <<Id("f"), EQ>> \o Lam("x") \o <<Id("x"), Plus, Id("k")>>
        \o <<Id("k"), EQ, Lit(2)>> \o App(<<Id("f")>>, <<Lit(0)>>) \o <<EOF>>
\* the same after the prelude, which binds k to 1:  g = \x.x+k   k = 2   (g) 0
SharedFramePreludeInput ==
    Prelude \o <<Id("g"), EQ>> \o Lam("x") \o <<Id("x"), Plus, Id("k")>>
        \o <<Id("k"), EQ, Lit(2)>> \o App(<<Id("g")>>, <<Lit(0)>>) \o <<EOF>>

\* the Binding statements of name among the first n statements
BindingsOf(name, n) ==
    {j \in 1..n : program[j].tag = "Binding" /\ program[j].name = name}
\* the value the last of them gave to name
LastBound(name, n) ==
    results[CHOOSE j \in BindingsOf(name, n) : \A k \in BindingsOf(name, n) : k <= j]
\* the lookup is made in a frame of a call and finds the name in the global
\* frame, the frame that the closures made at statement level captured
ReadsCaptured(i) ==
    /\ log[i].env # 1
    /\ Binders(log[i].fr, log[i].env, log[i].name) # {}
    /\ \A j \in Binders(log[i].fr, log[i].env, log[i].name) :
            FrameChain(log[i].fr, log[i].env)[j] = 1

\* C21: a closure reads the names of its captured frame at call time, not at
\* creation time: a name read from the global frame during a call has the
\* value of the last Binding statement of that name evaluated before the
\* call's statement, and after k = 1, f = \x.x+k, k = 2 the statement (f) 0
\* yields 2, not 1.
C21_ReadsAtCallTime ==
    /\ (pc = "eval" /\ idx >= 1) =>
            \A i \in Lookups :
                ReadsCaptured(i) =>
                    /\ BindingsOf(log[i].name, idx - 1) # {}
                    /\ log[i].res = LastBound(log[i].name, idx - 1)
    /\ (tokens = SharedFrameInput /\ Len(results) >= 4) =>
            /\ results[1] = VLiteral(Num(1))
            /\ results[2] = Closer("x", BinaryOperation("Add", Identifier("x"), Identifier("k")), 1)
            /\ results[4] = VLiteral(Num(2))
    /\ (tokens = SharedFramePreludeInput /\ Len(results) >= PreludeLen + 3) =>
            results[PreludeLen + 3] = VLiteral(Num(2))

\* (f) 0 has been evaluated: k was 1 when f was made, and the call read 2
C21_Witness ==
    /\ tokens = SharedFrameInput
    /\ pc = "eval"
    /\ idx = 4
    /\ results[1] = VLiteral(Num(1))
    /\ results[4] = VLiteral(Num(2))
    /\ \E i \in Lookups :
            /\ ReadsCaptured(i)
            /\ log[i].name = "k"
            /\ log[i].res = VLiteral(Num(2))
            /\ LastBound("k", 2) = VLiteral(Num(1))

-----------------------------------------------------------------------------
(* C22: the shape of the frames.                                            *)

\* frames 2.. are the frames made by calls; frame 1 is the global frame
CallFrames == 2..Len(frames)

\* every call frame holds one binding and has an older frame as parent, and
\* the parent links lead from it to the global frame
FramesShape ==
    frames # <<>> =>
        /\ frames[1].parent = 0
        /\ \A j \in CallFrames :
                /\ Cardinality(DOMAIN frames[j].bindings) = 1
                /\ frames[j].parent \in 1..(j - 1)
                /\ FrameChain(frames, j)[Len(FrameChain(frames, j))] = 1
                /\ Len(FrameChain(frames, j)) <= j

\* the frame a call made binds the parameter of the closure called to the
\* value of the call's argument, below the frame the closure captured
FramesOfCalls ==
    \A i \in Calls :
        /\ log[i].new_env \in CallFrames
        /\ log[i].fun.tag = "Closer"
        /\ frames[log[i].new_env].bindings = (log[i].fun.param :> log[i].argv)
        /\ frames[log[i].new_env].parent = log[i].fun.env

\* the call frames an Identifier was evaluated with are what they are now
FramesAsRead ==
    \A i \in Lookups :
        \A j \in 2..Len(log[i].fr) : j \in CallFrames /\ log[i].fr[j] = frames[j]

\* a step keeps every call frame, makes new frames by calls only, and
\* changes the global frame only by a Binding statement, after its value
\* has been evaluated
FramesStep ==
    frames # <<>> =>
        /\ Len(frames') >= Len(frames)
        /\ \A j \in CallFrames : frames'[j] = frames[j]
        /\ \A j \in (Len(frames) + 1)..Len(frames') :
                \E i \in DOMAIN log' : log'[i].ev = "apply" /\ log'[i].new_env = j
        /\ frames'[1] # frames[1] =>
                /\ BindingStep
                /\ pc' = "eval"
                /\ frames'[1] = Scope_set(frames[1], program[idx + 1].name, results'[idx + 1])
        /\ (pc = "eval" /\ idx < Len(program)) =>
                \A i \in DOMAIN log' : log'[i].ev = "lookup" => log'[i].fr[1] = frames[1]

\* C22: every frame other than the global frame holds exactly one binding,
\* the parameter of the closure whose application created it, and that
\* binding never changes after the frame is created; only Binding statements
\* write to the global frame; the parent links of every frame lead to the
\* global frame in finitely many steps.
C22_FrameShape ==
    /\ [](FramesShape /\ FramesOfCalls /\ FramesAsRead)
    /\ [][FramesStep]_vars

\* ((a) 2) 10 has been evaluated: the second call's frame binds y below the
\* frame of the first call, which binds x below the global frame
C22_Witness ==
    /\ tokens = CurriedInput
    /\ pc = "eval"
    /\ idx = PreludeLen + 1
    /\ Len(frames) = 3
    /\ frames[2] = [bindings |-> ("x" :> VLiteral(Num(2))), parent |-> 1]
    /\ frames[3] = [bindings |-> ("y" :> VLiteral(Num(10))), parent |-> 2]
    /\ FrameChain(frames, 3) = <<3, 2, 1>>
    /\ DOMAIN frames[1].bindings = {"k", "c", "f", "a", "h", "i"}

-----------------------------------------------------------------------------
(* C23: the marker's expression is evaluated twice per tail-loop iteration. *)

\* (\n.F((\print.print) n-1)) 2, inline, bound to p, and handed to \g.(g) 2
PrintingInlineInput ==
    Prelude \o App(PrintingCountdown("n"), <<Lit(2)>>) \o <<EOF>>
PrintingGlobalInput ==
    Prelude \o <<Id("p"), EQ>> \o PrintingCountdown("n") \o App(<<Id("p")>>, <<Lit(2)>>)
        \o <<EOF>>
PrintingCallerFrameInput ==
    Prelude \o App(Lam("g") \o App(<<Id("g")>>, <<Lit(2)>>), PrintingCountdown("n"))
        \o <<EOF>>
Printed(v) == [cap |-> "print", args |-> <<Num(v)>>, ret |-> VLiteral(Num(v))]

\* the calls that made the call again: the iterations of the tail loop
Iterations == {i \in Calls : log[i].tail # 0}
\* the iterations whose evaluations of the marker's expression the history
\* shows: the closure's body is the marker, its expression is an
\* application, and the function expression of the call is none
Observable ==
    {i \in Iterations :
        /\ log[i].fun.body.tag = "Recursion"
        /\ log[i].fun.body.inner.tag = "Application"
        /\ log[i].func.tag # "Application"
        /\ log[i].res.tag # "Cut"}
\* the evaluations of the marker's expression in the frame of call i, made
\* by the call `by`
InnerRuns(i, by) ==
    {j \in Applies :
        /\ log[j].parent = by
        /\ log[j].env = log[i].new_env
        /\ ~log[j].rc
        /\ log[j].func = log[i].fun.body.inner.func}
\* the call made again got its function expression evaluated
FunctionEvaluated(i) == log[log[i].tail].fun # NoVal

C23_OnceWitness ==
    /\ tokens = PrintingCallerFrameInput
    /\ pc = "failed"
    /\ out = <<Printed(1)>>
    /\ \E i \in Observable :
            /\ ~FunctionEvaluated(i)
            /\ Cardinality(InnerRuns(i, i)) = 1
            /\ InnerRuns(i, log[i].tail) = {}

=============================================================================
